---- MODULE Spec2Model ----
(***************************************************************************)
(* State-machine model of the Data_Migration pipeline (MS-SQL -> Postgres). *)
(*                                                                         *)
(*   SpecSort : migrate_schema.topological_sort_tables                     *)
(*   SpecData : migrate_data.migrate (copy_table, checkpoint file,         *)
(*              enforcement suspension, validate_constraints)              *)
(*   SpecMap  : migrate_schema.map_data_type / map_default_value           *)
(*   SpecVerify : verify_migration.main, foreign-key reconciliation        *)
(*   SpecDdl  : migrate_schema.main, generation of the DDL document        *)
(*   SpecImport : migrate_data_1.main, applying the exported SQL files     *)
(*   SpecPost : migrate_script.generate_postprocess_sql, _convert_types.sql *)
(*   SpecCount : verify_migration.main, row counts (compare_data_counts)    *)
(*   SpecPipe : data_migration.main, the five stages as subprocesses        *)
(*                                                                         *)
(* Identifiers are sequences of one-character strings, so that the key     *)
(* formatting f"{schema}.{table}" and the parsing t.split('.') are         *)
(* computed character by character, as the code computes them.             *)
(***************************************************************************)
EXTENDS Integers, Sequences, FiniteSets, TLC

VARIABLES
    \* ---- migrate_schema.topological_sort_tables ----
    tables,            \* argument: list of (schema, table)
    srcFks,            \* catalog: srcFks[i] = foreign keys of tables[i], each the referenced (schema, table)
    in_degree_keys,    \* in_degree: the dict's keys in insertion order
    in_degree,         \* in_degree: key -> count
    graph,             \* graph: key -> list of keys (defaultdict(list))
    queue,             \* deque of keys
    sorted_tables,     \* list of keys
    sortResult,        \* the returned list of (schema, table)
    sortPc,            \* "init" | "loop" | "done"
    \* ---- migrate_data.migrate ----
    srcTables,         \* tables_in_sqlserver(src_conn): list of (schema, table)
    srcRows,           \* srcRows[i]: number of rows of srcTables[i]; its rows are 1..srcRows[i] in cursor order
    batch_size,        \* batch size handed to copy_table
    checkpointFile,    \* lines of .migrated
    target,            \* target[i]: committed rows of srcTables[i] in the target database
    txn,               \* uncommitted inserts on dst_conn: sequence of <<i, row>>
    done,              \* done = load_checkpoint()
    run,               \* number of invocations of migrate started so far
    tableIdx,          \* position of the for loop in tables
    dataPc,            \* "idle" | "loop" | "fetch" | "resync" | "commit" | "save" |
                       \*   "validate" | "close" | "finished" | "crashed"
    fetched,           \* rows the source cursor has delivered
    batches,           \* batches inserted by the current call of copy_table
    attempted,         \* history: tables a SELECT was issued for in this invocation
    inserted,          \* history: tables an INSERT was issued for in this invocation
    failed,            \* history: tables whose copy raised in this invocation
    failedPrev,        \* history: tables whose copy raised in the previous invocation
    committed,         \* history: tables whose dst_conn.commit() has returned
    ckptAtStart,       \* history: lines of .migrated when this invocation started
    attemptStart,      \* history: target when the current call of copy_table started
    strict,            \* args.strict of the current invocation
    role,              \* session_replication_role of the target session: "origin" | "replica"
    roleCommitted,     \* the value a rollback of the open transaction restores
    notValidated,      \* target catalog: foreign keys with NOT convalidated
    valList,           \* validate_constraints: the rows of cur.fetchall()
    valIdx,            \* validate_constraints: position of the for loop
    valTxn,            \* constraints validated in the open, uncommitted transaction
    valAttempted,      \* history: constraints a VALIDATE CONSTRAINT was issued for in this invocation
    valFailed,         \* history: constraints whose VALIDATE CONSTRAINT raised in this invocation
    srcOpen,           \* src_conn is open
    dstOpen,           \* dst_conn is open
    lastFailure,       \* history: the statement that raised last in this invocation
    \* ---- migrate_schema.map_data_type / map_default_value ----
    type_mappings,     \* type_mappings.json: lower-cased source type -> target type
    default_mappings,  \* default_mappings.json: <<key, value>> entries in file order
    typeSeen,          \* history: arguments of the map_data_type calls that returned ->
                       \*   their results, how many there were, how many consulted the oracle
    lastCall,          \* history: the latest call, its outcome, whether it consulted the oracle
    nCalls,            \* history: number of calls so far
    \* ---- verify_migration.main: foreign-key reconciliation ----
    src_fk,            \* fetch_foreign_keys_sqlserver: set of (s, t, c, rs, rt, rc, cn)
    dst_fk,            \* foreign keys of the target catalog, same shape
    missing_in_pg,     \* compare_foreign_keys: first list returned
    extra_in_pg,       \* compare_foreign_keys: second list returned
    failed_fks,        \* list of (fk_tuple, error_msg)
    verPc,             \* "idle" | "add" | "drop" | "report" | "done" | "crashed"
    verIdx,            \* position of the current for loop
    verRun,            \* number of verification runs started so far
    addRaised,         \* history: (fk_tuple, error_msg) of every addition that raised in this run
    addTried,          \* history: foreign keys add_missing_fk was called for in this run
    flagged,           \* history: foreign keys prompt_drop_fk logged in this run
    dstAtStart,        \* history: dst_fk when the first run started
    \* ---- migrate_schema.main: the DDL document ----
    srcCols,           \* catalog: srcCols[i] = columns of tables[i], each <<type arguments, COLUMN_DEFAULT>>
    srcIndexes,        \* catalog: srcIndexes[i] = number of non-primary-key indexes of tables[i]
    ddlPc,             \* "start" | "loop" | "type" | "default" | "done" | "crashed"
    ddlIdx,            \* position of `for schema_name, table_name in sorted_tables`
    colIdx,            \* position of `for col in columns`
    colType,           \* generate_postgres_schema: pg_type of the current column
    column_definitions,       \* generate_postgres_schema: list of <<pg_type, default_value>>
    create_table_statements,  \* main: list of statements
    fk_statements,            \* main: list of statements
    index_statements,         \* main: list of statements
    document,          \* the statements in args.output, in file order
    written,           \* "no" | "ok" | "ioerror": outcome of writing args.output
    oracleFailed,      \* history: get_mapping_from_gemini raised
    \* ---- migrate_data_1.main: the import stage ----
    dirExists,         \* sql_dir.exists()
    impDir,            \* the files of sql_dir, each <<stem, suffix>>
    fileStmts,         \* fileStmts[f]: number of statements of the .sql file f
    sql_files,         \* main: the sorted list of data files
    impIdx,            \* position of `for file in sql_files`
    impPc,             \* "start" | "loop" | "convert" | "open" | "execute" | "commit" |
                       \*   "restore" | "done" | "returned" | "crashed"
    filepath,          \* run_sql_file: its argument
    impCaller,         \* which call of run_sql_file is running: "loop" | "convert"
    impTxn,            \* uncommitted statements on conn: sequence of <<file, n>>
    impTarget,         \* committed statements in the target: set of <<file, n>>
    impRole,           \* session_replication_role of conn
    impRoleCommitted,  \* the value a rollback of the open transaction restores
    applied,           \* history: [file, role] for every cur.execute(sql), in order
    impFailed,         \* history: files whose run_sql_file took the except branch
    \* ---- migrate_script.generate_postprocess_sql ----
    casted_columns_map,  \* list of <<full_table, list of <<col, dtype>>>>, in insertion order
    pgFks,             \* build_foreign_key_usage: the rows of cur.fetchall(), in order
    postPc,            \* "table" | "column" | "done" | "crashed"
    postIdx,           \* position of `for full_table, columns in casted_columns_map.items()`
    postColIdx,        \* position of `for col, dtype in columns`
    postTable,         \* schema, table = full_table.split(".")
    extensions,        \* extensions already written
    artifact,          \* the statements of _convert_types.sql, in file order
    \* ---- verify_migration: compare_data_counts and the catalog query after it ----
    common_tables,     \* the tables present in both databases, a set of (schema, table)
    srcCount,          \* source: srcCount[t] = COUNT(*) of t, None when the query on t fails
    dstCount,          \* target: dstCount[t] = COUNT(*) of t, None when the query on t fails
    dstTxn,            \* transaction of dst_conn: "open" | "aborted"
    data_mismatches,   \* compare_data_counts: mismatches
    counted,           \* history: [table, src, dst] returned by fetch_row_count, per table
    cntIdx,            \* position of `for schema, table in sorted(tables)`
    cntPc,             \* "counts" | "fks" | "reconcile" | "crashed"
    \* ---- data_migration.main: the five stages ----
    pipeStage,         \* the run_script call main is at: 1..5, 6 after the last
    pipePc,            \* "call" | "running" | "exited" | "done"
    stageLog,          \* history: [script, outcome, returncode] per subprocess.run, in order
    pipeExit,          \* exit code of data_migration.py, None while it runs
    successLogged      \* "Data migration and verification completed successfully." was logged

sortVars == <<tables, srcFks, in_degree_keys, in_degree, graph, queue,
              sorted_tables, sortResult, sortPc>>

dataVars == <<srcTables, srcRows, batch_size, checkpointFile, target, txn, done,
              run, tableIdx, dataPc, fetched, batches, attempted, inserted,
              failed, failedPrev, committed, ckptAtStart, attemptStart,
              strict, role, roleCommitted, notValidated, valList, valIdx, valTxn,
              valAttempted, valFailed, srcOpen, dstOpen, lastFailure>>

\* the state of validate_constraints, and the two connections
valVars == <<notValidated, valList, valIdx, valTxn, valAttempted, valFailed>>
connVars == <<srcOpen, dstOpen>>

mapVars == <<type_mappings, default_mappings, typeSeen, lastCall, nCalls>>

verVars == <<src_fk, dst_fk, missing_in_pg, extra_in_pg, failed_fks, verPc, verIdx,
             verRun, addRaised, addTried, flagged, dstAtStart>>

ddlVars == <<srcCols, srcIndexes, ddlPc, ddlIdx, colIdx, colType, column_definitions,
             create_table_statements, fk_statements, index_statements, document,
             written, oracleFailed>>

impVars == <<dirExists, impDir, fileStmts, sql_files, impIdx, impPc, filepath, impCaller,
             impTxn, impTarget, impRole, impRoleCommitted, applied, impFailed>>

postVars == <<casted_columns_map, pgFks, postPc, postIdx, postColIdx, postTable,
              extensions, artifact>>

cntVars == <<common_tables, srcCount, dstCount, dstTxn, data_mismatches, counted, cntIdx,
             cntPc>>

pipeVars == <<pipeStage, pipePc, stageLog, pipeExit, successLogged>>

vars == <<sortVars, dataVars, mapVars, verVars, ddlVars, impVars, postVars, cntVars, pipeVars>>

\* what each component leaves alone
notSort == <<dataVars, mapVars, verVars, ddlVars, impVars, postVars, cntVars, pipeVars>>
notData == <<sortVars, mapVars, verVars, ddlVars, impVars, postVars, cntVars, pipeVars>>
notMap == <<sortVars, dataVars, verVars, ddlVars, impVars, postVars, cntVars, pipeVars>>
notVer == <<sortVars, dataVars, mapVars, ddlVars, impVars, postVars, cntVars, pipeVars>>
notDdl == <<dataVars, verVars, impVars, postVars, cntVars, pipeVars>>
notImp == <<sortVars, dataVars, mapVars, verVars, ddlVars, postVars, cntVars, pipeVars>>
notPost == <<sortVars, dataVars, mapVars, verVars, ddlVars, impVars, cntVars, pipeVars>>
notCount == <<sortVars, dataVars, mapVars, verVars, ddlVars, impVars, postVars, pipeVars>>
notPipe == <<sortVars, dataVars, mapVars, verVars, ddlVars, impVars, postVars, cntVars>>

-----------------------------------------------------------------------------
(* Bounds *)
MaxTables == 3       \* tables in the source catalog
MaxFkRows == 3       \* foreign-key rows in the source catalog
MaxSrcTables == 2    \* tables the transfer stage finds in the source
MaxRows == 3         \* rows per source table
MaxBatch == 2        \* batch sizes 1..MaxBatch (BATCH_SIZE scaled down)
MaxRuns == 2         \* invocations of the transfer stage
MaxCalls == 3        \* calls of the type / default translator
MaxPending == 2      \* foreign keys the target holds unvalidated
MaxVerifyRuns == 2   \* runs of the verification stage
MaxDdlTables == 2    \* tables the schema stage finds in the source
MaxDdlFks == 1       \* foreign-key rows per table in the schema stage
MaxCols == 1         \* columns per table in the schema stage
MaxIndexes == 1      \* indexes per table in the schema stage
MaxFileStmts == 2    \* statements per exported .sql file
MaxCasted == 2       \* columns the export stage had to cast
MaxTargetFks == 2    \* foreign-key rows of the target catalog in the export stage

\* row counts: common tables, and the largest COUNT(*) of a table
MaxCountTables == 3
MaxCount == 1

-----------------------------------------------------------------------------
(* Generic helpers *)

SeqsUpTo(S, n) == UNION {[1..k -> S] : k \in 0..n}

Range(s) == {s[i] : i \in 1..Len(s)}

NoDup(s) == \A i, j \in 1..Len(s) : s[i] = s[j] => i = j

RECURSIVE SumLen(_, _)
SumLen(f, n) == IF n = 0 THEN 0 ELSE Len(f[n]) + SumLen(f, n - 1)

\* number of positions of s holding x (list.count)
Count(s, x) == Cardinality({i \in 1..Len(s) : s[i] = x})

\* s without repeated elements, first occurrences kept in order (dict key order)
RECURSIVE Dedup(_)
Dedup(s) ==
    IF s = <<>> THEN <<>>
    ELSE LET r == Dedup(SubSeq(s, 1, Len(s) - 1))
             x == s[Len(s)]
         IN  IF x \in Range(r) THEN r ELSE Append(r, x)

\* [x for x in s if P(x)]
RECURSIVE Filter(_, _)
Filter(s, keep) ==
    IF s = <<>> THEN <<>>
    ELSE (IF s[1] \in keep THEN <<s[1]>> ELSE <<>>) \o Filter(Tail(s), keep)

-----------------------------------------------------------------------------
(* Strings: sequences of one-character strings *)

\* f"{schema}.{table}"                      migrate_schema.py:179, migrate_data.py:167
TableKey(t) == t[1] \o <<".">> \o t[2]

\* str.split('.')
RECURSIVE SplitDot(_)
SplitDot(s) ==
    IF \E i \in 1..Len(s) : s[i] = "."
    THEN LET i == CHOOSE i \in 1..Len(s) :
                      s[i] = "." /\ \A j \in 1..(i - 1) : s[j] # "."
         IN  <<SubSeq(s, 1, i - 1)>> \o SplitDot(SubSeq(s, i + 1, Len(s)))
    ELSE <<s>>

\* (t.split('.')[0], t.split('.')[1])       migrate_schema.py:203
KeyToTable(k) == <<SplitDot(k)[1], SplitDot(k)[2]>>

-----------------------------------------------------------------------------
(* Source catalogs the sort is run on *)

s_a  == <<(<<"s">>), (<<"a">>)>>
s_b  == <<(<<"s">>), (<<"b">>)>>
s_c  == <<(<<"s">>), (<<"c">>)>>
s_ab == <<(<<"s">>), (<<"a", ".", "b">>)>>      \* table named [a.b]

SortPool == {s_a, s_b, s_c, s_ab}

-----------------------------------------------------------------------------
(* migrate_schema.main, lines 361-366: foreign_keys_map[table_key] = fks *)
RECURSIVE ForeignKeysMap(_, _, _)
ForeignKeysMap(tbls, fks, n) ==
    IF n = 0 THEN [k \in {} |-> <<>>]
    ELSE LET m == ForeignKeysMap(tbls, fks, n - 1)
             k == TableKey(tbls[n])
         IN  [x \in (DOMAIN m) \cup {k} |-> IF x = k THEN fks[n] ELSE m[x]]

foreign_keys_map == ForeignKeysMap(tables, srcFks, Len(tables))

(* topological_sort_tables, lines 176-185: in_degree and graph *)

\* inner loop over one table's foreign keys (lines 181-185); st = [deg, gr]
RECURSIVE AddEdges(_, _, _, _)
AddEdges(st, table_key, fkl, i) ==
    IF i > Len(fkl) THEN st
    ELSE LET ref_table_key == TableKey(fkl[i])
             nxt == IF ref_table_key \in DOMAIN st.deg
                    THEN [deg |-> [st.deg EXCEPT ![table_key] = @ + 1],
                          gr  |-> [st.gr EXCEPT ![ref_table_key] = Append(@, table_key)]]
                    ELSE st
         IN  AddEdges(nxt, table_key, fkl, i + 1)

\* outer loop over the tables (lines 178-185)
RECURSIVE BuildGraph(_, _, _, _)
BuildGraph(st, tbls, fkmap, i) ==
    IF i > Len(tbls) THEN st
    ELSE LET table_key == TableKey(tbls[i])
             nxt == IF table_key \in DOMAIN fkmap
                    THEN AddEdges(st, table_key, fkmap[table_key], 1)
                    ELSE st
         IN  BuildGraph(nxt, tbls, fkmap, i + 1)

InDegreeKeys(tbls) == Dedup([i \in 1..Len(tbls) |-> TableKey(tbls[i])])

InitialGraph(tbls, fkmap) ==
    LET keys == Range(InDegreeKeys(tbls))
    IN  BuildGraph([deg |-> [k \in keys |-> 0], gr |-> [k \in keys |-> <<>>]],
                   tbls, fkmap, 1)

\* queue = deque([key for key, degree in in_degree.items() if degree == 0])   line 187
InitialQueue(keys, deg) == Filter(keys, {k \in Range(keys) : deg[k] = 0})

\* for neighbor in graph[current] (lines 193-196); st = [deg, q]
RECURSIVE Relax(_, _, _)
Relax(st, nbrs, i) ==
    IF i > Len(nbrs) THEN st
    ELSE LET neighbor == nbrs[i]
             d == st.deg[neighbor] - 1
         IN  Relax([deg |-> [st.deg EXCEPT ![neighbor] = d],
                    q   |-> IF d = 0 THEN Append(st.q, neighbor) ELSE st.q],
                   nbrs, i + 1)

\* remaining = [key for key in in_degree if key not in sorted_tables]   line 200
Remaining(keys, sorted) == Filter(keys, Range(keys) \ Range(sorted))

-----------------------------------------------------------------------------
(* migrate_data: checkpoint file, source cursor, target transaction *)

Whitespace == {" "}

\* str.strip()
RECURSIVE LStrip(_)
LStrip(s) == IF s # <<>> /\ s[1] \in Whitespace THEN LStrip(Tail(s)) ELSE s

RECURSIVE RStrip(_)
RStrip(s) ==
    IF s # <<>> /\ s[Len(s)] \in Whitespace THEN RStrip(SubSeq(s, 1, Len(s) - 1)) ELSE s

Strip(s) == LStrip(RStrip(s))

\* load_checkpoint: {line.strip() for line in ... if line.strip()}
load_checkpoint(file) == {Strip(file[i]) : i \in 1..Len(file)} \ {<<>>}

\* save_checkpoint: append f"{table_key}\n"
save_checkpoint(file, table_key) == Append(file, table_key)

\* the except branch of migrate (lines 174-176) does not write to the checkpoint file
HandlerCheckpointMutant(file, table_key) == Append(file, table_key)
HandlerCheckpoint(file, table_key) == file

\* dst_conn.rollback(): the uncommitted inserts are discarded
RollbackMutant(t) == t
Rollback(t) == <<>>

Min(a, b) == IF a < b THEN a ELSE b

\* the rows of a source table, in the cursor's order
CursorRows(n) == [r \in 1..n |-> r]

\* cur.fetchmany(size) with `pos` rows already delivered
FetchManyMutant(rows, pos, size) ==
    IF pos + size <= Len(rows) THEN SubSeq(rows, pos + 1, pos + size) ELSE <<>>
FetchMany(rows, pos, size) == SubSeq(rows, pos + 1, Min(pos + size, Len(rows)))

\* pgx.execute_values(dst_cur, sql_insert, batch, page_size=len(batch)):
\* one multi-row INSERT of the whole batch into table i, inside the open transaction
ExecuteValues(t, i, batch) == t \o [k \in 1..Len(batch) |-> <<i, batch[k]>>]

\* the rows of table i among the uncommitted inserts, in insertion order
RECURSIVE RowsFor(_, _)
RowsFor(t, i) ==
    IF t = <<>> THEN <<>>
    ELSE (IF t[1][1] = i THEN <<t[1][2]>> ELSE <<>>) \o RowsFor(Tail(t), i)

\* dst_conn.commit(): every uncommitted insert becomes part of the target
Commit(tgt, t) == [i \in DOMAIN tgt |-> tgt[i] \o RowsFor(t, i)]

\* tables the source catalog may hold, in ORDER BY TABLE_SCHEMA, TABLE_NAME order
sp_a == <<(<<" ", "s">>), (<<"a">>)>>            \* schema named [ s]
sa_b == <<(<<"s", ".", "a">>), (<<"b">>)>>       \* schema named [s.a]

DataCatalog == <<sp_a, s_a, s_ab, sa_b>>

CatalogSelections(k) ==
    {f \in [1..k -> 1..Len(DataCatalog)] : \A i, j \in 1..k : i < j => f[i] < f[j]}

SourceTableLists ==
    UNION {{[i \in 1..k |-> DataCatalog[f[i]]] : f \in CatalogSelections(k)} :
           k \in 0..MaxSrcTables}

CurrentKey == TableKey(srcTables[tableIdx])

\* cur.execute("SET session_replication_role = ...") on the target session
SetRole(current, value) == value

\* dst_conn.rollback() on the target session: a SET issued in the transaction
\* that is rolled back is undone with it
RollbackRole(current, atLastCommit) == atLastCommit

\* cur.fetchall() of the unvalidated foreign keys: the rows in some order
Orderings(S) == {q \in [1..Cardinality(S) -> S] : \A i, j \in 1..Cardinality(S) : q[i] = q[j] => i = j}

\* where migrate goes when VALIDATE CONSTRAINT raises for the i-th of n rows:
\* no handler encloses validate_constraints, the exception leaves migrate
ValidateHandler(i, n) == "crashed"

-----------------------------------------------------------------------------
(* Idle values: each specification leaves the other components untouched *)

SortIdle ==
    /\ tables = <<>>
    /\ srcFks = <<>>
    /\ in_degree_keys = <<>>
    /\ in_degree = <<>>
    /\ graph = <<>>
    /\ queue = <<>>
    /\ sorted_tables = <<>>
    /\ sortResult = <<>>
    /\ sortPc = "idle"

DataIdle ==
    /\ srcTables = <<>>
    /\ srcRows = <<>>
    /\ batch_size = 1
    /\ checkpointFile = <<>>
    /\ target = <<>>
    /\ txn = <<>>
    /\ done = {}
    /\ run = 0
    /\ tableIdx = 0
    /\ dataPc = "off"
    /\ fetched = 0
    /\ batches = <<>>
    /\ attempted = {}
    /\ inserted = {}
    /\ failed = {}
    /\ failedPrev = {}
    /\ committed = {}
    /\ ckptAtStart = <<>>
    /\ attemptStart = <<>>
    /\ strict = FALSE
    /\ role = "origin"
    /\ roleCommitted = "origin"
    /\ notValidated = {}
    /\ valList = <<>>
    /\ valIdx = 0
    /\ valTxn = {}
    /\ valAttempted = {}
    /\ valFailed = {}
    /\ srcOpen = FALSE
    /\ dstOpen = FALSE
    /\ lastFailure = "none"

MapIdle ==
    /\ type_mappings = <<>>
    /\ default_mappings = <<>>
    /\ typeSeen = <<>>
    /\ lastCall = <<>>
    /\ nCalls = 0

VerIdle ==
    /\ src_fk = {}
    /\ dst_fk = {}
    /\ missing_in_pg = <<>>
    /\ extra_in_pg = <<>>
    /\ failed_fks = <<>>
    /\ verPc = "off"
    /\ verIdx = 0
    /\ verRun = 0
    /\ addRaised = {}
    /\ addTried = {}
    /\ flagged = {}
    /\ dstAtStart = {}

DdlIdle ==
    /\ srcCols = <<>>
    /\ srcIndexes = <<>>
    /\ ddlPc = "off"
    /\ ddlIdx = 0
    /\ colIdx = 0
    /\ colType = <<>>
    /\ column_definitions = <<>>
    /\ create_table_statements = <<>>
    /\ fk_statements = <<>>
    /\ index_statements = <<>>
    /\ document = <<>>
    /\ written = "no"
    /\ oracleFailed = FALSE

ImpIdle ==
    /\ dirExists = FALSE
    /\ impDir = {}
    /\ fileStmts = <<>>
    /\ sql_files = <<>>
    /\ impIdx = 0
    /\ impPc = "off"
    /\ filepath = <<>>
    /\ impCaller = "none"
    /\ impTxn = <<>>
    /\ impTarget = {}
    /\ impRole = "origin"
    /\ impRoleCommitted = "origin"
    /\ applied = <<>>
    /\ impFailed = {}

PostIdle ==
    /\ casted_columns_map = <<>>
    /\ pgFks = <<>>
    /\ postPc = "off"
    /\ postIdx = 0
    /\ postColIdx = 0
    /\ postTable = <<>>
    /\ extensions = {}
    /\ artifact = <<>>

CountIdle ==
    /\ common_tables = {}
    /\ srcCount = <<>>
    /\ dstCount = <<>>
    /\ dstTxn = "open"
    /\ data_mismatches = <<>>
    /\ counted = <<>>
    /\ cntIdx = 0
    /\ cntPc = "off"

PipeIdle ==
    /\ pipeStage = 0
    /\ pipePc = "off"
    /\ stageLog = <<>>
    /\ pipeExit = <<>>
    /\ successLogged = FALSE

-----------------------------------------------------------------------------
(* SpecData: migrate_data.migrate, invoked up to MaxRuns times *)

DataInit ==
    /\ SortIdle
    /\ MapIdle
    /\ VerIdle
    /\ DdlIdle
    /\ ImpIdle
    /\ PostIdle
    /\ CountIdle
    /\ PipeIdle
    /\ srcTables \in SourceTableLists
    /\ srcRows \in [1..Len(srcTables) -> 0..MaxRows]
    /\ batch_size \in 1..MaxBatch
    /\ checkpointFile = <<>>
    /\ target = [i \in 1..Len(srcTables) |-> <<>>]
    /\ txn = <<>>
    /\ done = {}
    /\ run = 0
    /\ tableIdx = 0
    /\ dataPc = "idle"
    /\ fetched = 0
    /\ batches = <<>>
    /\ attempted = {}
    /\ inserted = {}
    /\ failed = {}
    /\ failedPrev = {}
    /\ committed = {}
    /\ ckptAtStart = <<>>
    /\ attemptStart = target
    /\ strict = FALSE
    /\ role = "origin"
    /\ roleCommitted = "origin"
    /\ notValidated \in {1..k : k \in 0..MaxPending}
    /\ valList = <<>>
    /\ valIdx = 0
    /\ valTxn = {}
    /\ valAttempted = {}
    /\ valFailed = {}
    /\ srcOpen = FALSE
    /\ dstOpen = FALSE
    /\ lastFailure = "none"

\* migrate, lines 146-164: connect, suspend enforcement unless --strict,
\* done = load_checkpoint(), tables = tables_in_sqlserver.  The SET runs in the
\* transaction psycopg2 opens for it (autocommit is off); nothing commits it here.
DataStart ==
    /\ dataPc \in {"idle", "finished", "crashed"}
    /\ run < MaxRuns
    /\ strict' \in BOOLEAN
    /\ srcOpen' = TRUE
    /\ dstOpen' = TRUE
    /\ roleCommitted' = "origin"
    /\ role' = IF strict' THEN "origin" ELSE SetRole("origin", "replica")
    /\ valList' = <<>>
    /\ valIdx' = 0
    /\ valTxn' = {}
    /\ valAttempted' = {}
    /\ valFailed' = {}
    /\ lastFailure' = "none"
    /\ run' = run + 1
    /\ done' = load_checkpoint(checkpointFile)
    /\ ckptAtStart' = checkpointFile
    /\ tableIdx' = 1
    /\ dataPc' = "loop"
    /\ txn' = <<>>
    /\ fetched' = 0
    /\ batches' = <<>>
    /\ attempted' = {}
    /\ inserted' = {}
    /\ failedPrev' = failed
    /\ failed' = {}
    /\ attemptStart' = target
    /\ UNCHANGED <<notData, srcTables, srcRows, batch_size, checkpointFile, target, committed,
                   notValidated>>

\* lines 166-169: if key in done: continue
SkipTable ==
    /\ dataPc = "loop"
    /\ tableIdx <= Len(srcTables)
    /\ CurrentKey \in done
    /\ tableIdx' = tableIdx + 1
    /\ UNCHANGED <<notData, srcTables, srcRows, batch_size, strict, valVars, connVars, role, roleCommitted, lastFailure, checkpointFile, target, txn, done,
                   run, dataPc, fetched, batches, attempted, inserted, failed,
                   failedPrev, committed, ckptAtStart, attemptStart>>

\* lines 174-176: except Exception: dst_conn.rollback(); log; next table
Handler ==
    /\ txn' = Rollback(txn)
    /\ role' = RollbackRole(role, roleCommitted)
    /\ UNCHANGED roleCommitted
    /\ checkpointFile' = HandlerCheckpoint(checkpointFile, CurrentKey)
    /\ tableIdx' = tableIdx + 1
    /\ dataPc' = "loop"

\* copy_table, lines 109-111: SELECT * FROM the source table succeeds
SelectOk ==
    /\ dataPc = "loop"
    /\ tableIdx <= Len(srcTables)
    /\ CurrentKey \notin done
    /\ attempted' = attempted \cup {tableIdx}
    /\ attemptStart' = target
    /\ fetched' = 0
    /\ batches' = <<>>
    /\ dataPc' = "fetch"
    /\ UNCHANGED <<notData, srcTables, srcRows, batch_size, strict, valVars, connVars, role, roleCommitted, lastFailure, checkpointFile, target, txn, done,
                   run, tableIdx, inserted, failed, failedPrev, committed, ckptAtStart>>

\* copy_table, lines 109-111: the SELECT raises
SelectFail ==
    /\ dataPc = "loop"
    /\ tableIdx <= Len(srcTables)
    /\ CurrentKey \notin done
    /\ attempted' = attempted \cup {tableIdx}
    /\ attemptStart' = target
    /\ fetched' = 0
    /\ batches' = <<>>
    /\ failed' = failed \cup {tableIdx}
    /\ Handler
    /\ lastFailure' = "select"
    /\ UNCHANGED <<notData, srcTables, srcRows, batch_size, strict, valVars, connVars, target, done, run, inserted,
                   failedPrev, committed, ckptAtStart>>

\* lines 120-123 with fetch_batches: a non-empty batch is fetched and inserted
InsertBatch ==
    /\ dataPc = "fetch"
    /\ LET rows == FetchMany(CursorRows(srcRows[tableIdx]), fetched, batch_size)
       IN  /\ rows # <<>>
           /\ txn' = ExecuteValues(txn, tableIdx, rows)
           /\ batches' = Append(batches, rows)
           /\ fetched' = fetched + Len(rows)
    /\ inserted' = inserted \cup {tableIdx}
    /\ UNCHANGED <<notData, srcTables, srcRows, batch_size, strict, valVars, connVars, role, roleCommitted, lastFailure, checkpointFile, target, done, run,
                   tableIdx, dataPc, attempted, failed, failedPrev, committed,
                   ckptAtStart, attemptStart>>

\* lines 120-123: fetchmany or execute_values raises
InsertFail ==
    /\ dataPc = "fetch"
    /\ LET rows == FetchMany(CursorRows(srcRows[tableIdx]), fetched, batch_size)
       IN  inserted' = IF rows # <<>> THEN inserted \cup {tableIdx} ELSE inserted
    /\ failed' = failed \cup {tableIdx}
    /\ Handler
    /\ lastFailure' = "insert"
    /\ UNCHANGED <<notData, srcTables, srcRows, batch_size, strict, valVars, connVars, target, done, run, fetched, batches,
                   attempted, failedPrev, committed, ckptAtStart, attemptStart>>

\* fetch_batches, lines 52-53: `if not rows: break`
FetchEnd ==
    /\ dataPc = "fetch"
    /\ FetchMany(CursorRows(srcRows[tableIdx]), fetched, batch_size) = <<>>
    /\ dataPc' = "resync"
    /\ UNCHANGED <<notData, srcTables, srcRows, batch_size, strict, valVars, connVars, role, roleCommitted, lastFailure, checkpointFile, target, txn, done,
                   run, tableIdx, fetched, batches, attempted, inserted, failed,
                   failedPrev, committed, ckptAtStart, attemptStart>>

\* line 125: resync_id_sequences returns
ResyncOk ==
    /\ dataPc = "resync"
    /\ dataPc' = "commit"
    /\ UNCHANGED <<notData, srcTables, srcRows, batch_size, strict, valVars, connVars, role, roleCommitted, lastFailure, checkpointFile, target, txn, done,
                   run, tableIdx, fetched, batches, attempted, inserted, failed,
                   failedPrev, committed, ckptAtStart, attemptStart>>

\* line 125: resync_id_sequences raises
ResyncFail ==
    /\ dataPc = "resync"
    /\ failed' = failed \cup {tableIdx}
    /\ Handler
    /\ lastFailure' = "resync"
    /\ UNCHANGED <<notData, srcTables, srcRows, batch_size, strict, valVars, connVars, target, done, run, fetched, batches,
                   attempted, inserted, failedPrev, committed, ckptAtStart, attemptStart>>

\* line 126: dst_conn.commit() returns
CommitOk ==
    /\ dataPc = "commit"
    /\ target' = Commit(target, txn)
    /\ txn' = <<>>
    /\ committed' = committed \cup {tableIdx}
    /\ dataPc' = "save"
    /\ roleCommitted' = role
    /\ UNCHANGED <<notData, srcTables, srcRows, batch_size, strict, valVars, connVars, role, lastFailure, checkpointFile, done, run, tableIdx,
                   fetched, batches, attempted, inserted, failed, failedPrev,
                   ckptAtStart, attemptStart>>

\* line 126: dst_conn.commit() raises; the transaction is not committed
CommitFail ==
    /\ dataPc = "commit"
    /\ failed' = failed \cup {tableIdx}
    /\ Handler
    /\ lastFailure' = "commit"
    /\ UNCHANGED <<notData, srcTables, srcRows, batch_size, strict, valVars, connVars, target, done, run, fetched, batches,
                   attempted, inserted, failedPrev, committed, ckptAtStart, attemptStart>>

\* line 173: save_checkpoint(key) returns
SaveOk ==
    /\ dataPc = "save"
    /\ checkpointFile' = save_checkpoint(checkpointFile, CurrentKey)
    /\ tableIdx' = tableIdx + 1
    /\ dataPc' = "loop"
    /\ UNCHANGED <<notData, srcTables, srcRows, batch_size, strict, valVars, connVars, role, roleCommitted, lastFailure, target, txn, done, run, fetched,
                   batches, attempted, inserted, failed, failedPrev, committed,
                   ckptAtStart, attemptStart>>

\* line 173: save_checkpoint(key) raises before the line is written
SaveFail ==
    /\ dataPc = "save"
    /\ Handler
    /\ lastFailure' = "save"
    /\ UNCHANGED <<notData, srcTables, srcRows, batch_size, strict, valVars, connVars, target, done, run, fetched, batches,
                   attempted, inserted, failed, failedPrev, committed, ckptAtStart,
                   attemptStart>>

\* line 178 with --strict: validate_constraints is not called
SkipValidate ==
    /\ dataPc = "loop"
    /\ tableIdx > Len(srcTables)
    /\ strict
    /\ dataPc' = "close"
    /\ UNCHANGED <<notData, srcTables, srcRows, batch_size, strict, valVars, connVars,
                   checkpointFile, target, txn, done, run, tableIdx, fetched, batches,
                   attempted, inserted, failed, failedPrev, committed, ckptAtStart,
                   attemptStart, role, roleCommitted, lastFailure>>

\* validate_constraints, lines 90-97: SET session_replication_role = DEFAULT, then
\* the unvalidated foreign keys are read (no ORDER BY: in any order)
ValidateStart ==
    /\ dataPc = "loop"
    /\ tableIdx > Len(srcTables)
    /\ ~strict
    /\ role' = SetRole(role, "origin")
    /\ valList' \in Orderings(notValidated)
    /\ valIdx' = 1
    /\ dataPc' = "validate"
    /\ UNCHANGED <<notData, srcTables, srcRows, batch_size, strict, connVars, checkpointFile,
                   target, txn, done, run, tableIdx, fetched, batches, attempted, inserted,
                   failed, failedPrev, committed, ckptAtStart, attemptStart, roleCommitted,
                   notValidated, valTxn, valAttempted, valFailed, lastFailure>>

\* lines 98-100: ALTER TABLE ... VALIDATE CONSTRAINT returns
ValidateOk ==
    /\ dataPc = "validate"
    /\ valIdx <= Len(valList)
    /\ valTxn' = valTxn \cup {valList[valIdx]}
    /\ valAttempted' = valAttempted \cup {valList[valIdx]}
    /\ valIdx' = valIdx + 1
    /\ UNCHANGED <<notData, srcTables, srcRows, batch_size, strict, connVars, checkpointFile,
                   target, txn, done, run, tableIdx, dataPc, fetched, batches, attempted,
                   inserted, failed, failedPrev, committed, ckptAtStart, attemptStart, role,
                   roleCommitted, notValidated, valList, valFailed, lastFailure>>

\* lines 98-100: ALTER TABLE ... VALIDATE CONSTRAINT raises.  Nothing catches the
\* exception in validate_constraints or in migrate (lines 178-179): it leaves
\* migrate; the open transaction is never committed and the connections are
\* never closed by lines 181-182
ValidateFail ==
    /\ dataPc = "validate"
    /\ valIdx <= Len(valList)
    /\ valAttempted' = valAttempted \cup {valList[valIdx]}
    /\ valFailed' = valFailed \cup {valList[valIdx]}
    /\ valTxn' = {}
    /\ lastFailure' = "validate"
    /\ dataPc' = ValidateHandler(valIdx, Len(valList))
    /\ UNCHANGED <<notData, srcTables, srcRows, batch_size, strict, connVars, checkpointFile,
                   target, txn, done, run, tableIdx, fetched, batches, attempted, inserted,
                   failed, failedPrev, committed, ckptAtStart, attemptStart, role,
                   roleCommitted, notValidated, valList, valIdx>>

\* line 101: pg_conn.commit() after the loop
ValidateCommit ==
    /\ dataPc = "validate"
    /\ valIdx > Len(valList)
    /\ notValidated' = notValidated \ valTxn
    /\ valTxn' = {}
    /\ roleCommitted' = role
    /\ dataPc' = "close"
    /\ UNCHANGED <<notData, srcTables, srcRows, batch_size, strict, connVars, checkpointFile,
                   target, txn, done, run, tableIdx, fetched, batches, attempted, inserted,
                   failed, failedPrev, committed, ckptAtStart, attemptStart, role, valList,
                   valIdx, valAttempted, valFailed, lastFailure>>

\* lines 181-183: close both connections, log, return
DataFinish ==
    /\ dataPc = "close"
    /\ srcOpen' = FALSE
    /\ dstOpen' = FALSE
    /\ dataPc' = "finished"
    /\ UNCHANGED <<notData, srcTables, srcRows, batch_size, strict, valVars, checkpointFile,
                   target, txn, done, run, tableIdx, fetched, batches, attempted, inserted,
                   failed, failedPrev, committed, ckptAtStart, attemptStart, role,
                   roleCommitted, lastFailure>>

DataNext ==
    \/ DataStart
    \/ SkipTable
    \/ SelectOk
    \/ SelectFail
    \/ InsertBatch
    \/ InsertFail
    \/ FetchEnd
    \/ ResyncOk
    \/ ResyncFail
    \/ CommitOk
    \/ CommitFail
    \/ SaveOk
    \/ SaveFail
    \/ SkipValidate
    \/ ValidateStart
    \/ ValidateOk
    \/ ValidateFail
    \/ ValidateCommit
    \/ DataFinish

SpecData == DataInit /\ [][DataNext]_vars

-----------------------------------------------------------------------------
(* SpecSort *)

SortInit ==
    /\ tables \in {s \in SeqsUpTo(SortPool, MaxTables) : NoDup(s)}
    /\ srcFks \in {f \in [1..Len(tables) -> SeqsUpTo(SortPool, MaxFkRows)] :
                      SumLen(f, Len(tables)) <= MaxFkRows}
    /\ in_degree_keys = <<>>
    /\ in_degree = <<>>
    /\ graph = <<>>
    /\ queue = <<>>
    /\ sorted_tables = <<>>
    /\ sortResult = <<>>
    /\ sortPc = "init"
    /\ DataIdle
    /\ MapIdle
    /\ VerIdle
    /\ DdlIdle
    /\ ImpIdle
    /\ PostIdle
    /\ CountIdle
    /\ PipeIdle

\* lines 175-188
SortBuild ==
    /\ sortPc = "init"
    /\ LET g == InitialGraph(tables, foreign_keys_map)
       IN  /\ in_degree_keys' = InDegreeKeys(tables)
           /\ in_degree' = g.deg
           /\ graph' = g.gr
           /\ queue' = InitialQueue(InDegreeKeys(tables), g.deg)
    /\ sorted_tables' = <<>>
    /\ sortPc' = "loop"
    /\ UNCHANGED <<notSort, tables, srcFks, sortResult>>

\* one iteration of `while queue:` (lines 190-196)
SortStep ==
    /\ sortPc = "loop"
    /\ queue # <<>>
    /\ LET current == Head(queue)
           r == Relax([deg |-> in_degree, q |-> Tail(queue)], graph[current], 1)
       IN  /\ sorted_tables' = Append(sorted_tables, current)
           /\ in_degree' = r.deg
           /\ queue' = r.q
    /\ UNCHANGED <<notSort, tables, srcFks, in_degree_keys, graph, sortResult, sortPc>>

\* lines 198-203
SortReturn ==
    /\ sortPc = "loop"
    /\ queue = <<>>
    /\ LET final == IF Len(sorted_tables) # Len(tables)
                    THEN sorted_tables \o Remaining(in_degree_keys, sorted_tables)
                    ELSE sorted_tables
       IN  /\ sorted_tables' = final
           /\ sortResult' = [i \in 1..Len(final) |-> KeyToTable(final[i])]
    /\ sortPc' = "done"
    /\ UNCHANGED <<notSort, tables, srcFks, in_degree_keys, in_degree, graph, queue>>

SortNext == SortBuild \/ SortStep \/ SortReturn

SpecSort == SortInit /\ [][SortNext]_vars

-----------------------------------------------------------------------------
(* migrate_schema: type and default translation with the persisted caches *)

\* an optional integer is a sequence of at most one integer; None is the empty one
None == <<>>
Some(n) == <<n>>

\* what get_mapping_from_gemini does when consulted: a first token, or this (it raises)
OracleRaises == <<"raise">>

UpperChars == <<"A", "B", "C", "D", "E", "F", "G", "H", "I", "J", "K", "L", "M",
                "N", "O", "P", "Q", "R", "S", "T", "U", "V", "W", "X", "Y", "Z">>
LowerChars == <<"a", "b", "c", "d", "e", "f", "g", "h", "i", "j", "k", "l", "m",
                "n", "o", "p", "q", "r", "s", "t", "u", "v", "w", "x", "y", "z">>

\* str.lower()
Lower(s) ==
    [i \in 1..Len(s) |->
        IF \E k \in 1..Len(UpperChars) : UpperChars[k] = s[i]
        THEN LowerChars[CHOOSE k \in 1..Len(UpperChars) : UpperChars[k] = s[i]]
        ELSE s[i]]

\* `sub in s`
Contains(s, sub) ==
    \E i \in 1..(Len(s) - Len(sub) + 1) : SubSeq(s, i, i + Len(sub) - 1) = sub

\* str(n) of a non-negative integer
Digits == <<"0", "1", "2", "3", "4", "5", "6", "7", "8", "9">>
RECURSIVE IntStr(_)
IntStr(n) == IF n < 10 THEN <<Digits[n + 1]>>
             ELSE IntStr(n \div 10) \o <<Digits[(n % 10) + 1]>>

\* truth value of an optional integer in `x and ...`
Truthy(x) == x # None /\ x[1] # 0

\* type names and tokens
bit      == <<"b", "i", "t">>
BIT      == <<"B", "I", "T">>
varchar  == <<"v", "a", "r", "c", "h", "a", "r">>
VARCHAR  == <<"V", "A", "R", "C", "H", "A", "R">>
nvarchar == <<"n", "v", "a", "r", "c", "h", "a", "r">>
char     == <<"c", "h", "a", "r">>
nchar    == <<"n", "c", "h", "a", "r">>
decimal  == <<"d", "e", "c", "i", "m", "a", "l">>
numeric  == <<"n", "u", "m", "e", "r", "i", "c">>
text     == <<"t", "e", "x", "t">>
boolean  == <<"b", "o", "o", "l", "e", "a", "n">>
FALSE_   == <<"F", "A", "L", "S", "E">>
TRUE_    == <<"T", "R", "U", "E">>
zero     == <<"0">>
one      == <<"1">>
DEFAULT_ == <<"D", "E", "F", "A", "U", "L", "T", " ">>
ColonColon == <<":", ":">>

\* dict assignment d[k] = v on a dict whose order is never observed
DictPut(d, k, v) == [x \in (DOMAIN d) \cup {k} |-> IF x = k THEN v ELSE d[x]]

\* map_data_type, lines 227-228: type_mapping[sqlserver_type] = pg_type; save
TypeCacheAfterMissMutant(cache, t, pg_type) == cache
TypeCacheAfterMiss(cache, t, pg_type) == DictPut(cache, t, pg_type)

\* map_data_type, lines 230-236: length / precision / scale suffix
TypeSuffix(t, pg_type, char_max_length, numeric_precision, numeric_scale) ==
    IF t \in {varchar, nvarchar, char, nchar} /\ ~Contains(pg_type, text)
    THEN IF char_max_length = Some(-1) THEN text
         ELSE IF Truthy(char_max_length) /\ char_max_length[1] > 0
              THEN pg_type \o <<"(">> \o IntStr(char_max_length[1]) \o <<")">>
              ELSE pg_type
    ELSE IF t \in {decimal, numeric} /\ Truthy(numeric_precision) /\ Truthy(numeric_scale)
         THEN pg_type \o <<"(">> \o IntStr(numeric_precision[1]) \o <<",", " ">>
                      \o IntStr(numeric_scale[1]) \o <<")">>
         ELSE pg_type

\* outcome of a call: the returned string or an exception, the cache file it
\* leaves, and whether the oracle was consulted
Returns(r, cache, consulted) ==
    [raised |-> FALSE, result |-> r, cache |-> cache, oracle |-> consulted]
Raises(cache, consulted) ==
    [raised |-> TRUE, result |-> <<>>, cache |-> cache, oracle |-> consulted]

\* map_data_type(sqlserver_type, char_max_length, numeric_precision, numeric_scale)
\* on the cache file `cache`; `answer` is what get_mapping_from_gemini would do
\* if consulted: return a token, or raise
MapDataType(cache, a, answer) ==
    LET t == Lower(a[1])
        hit == t \in DOMAIN cache
    IN  IF hit
        THEN Returns(TypeSuffix(t, cache[t], a[2], a[3], a[4]), cache, FALSE)
        ELSE IF answer = OracleRaises
             THEN Raises(cache, TRUE)
             ELSE Returns(TypeSuffix(t, answer, a[2], a[3], a[4]),
                          TypeCacheAfterMiss(cache, t, answer), TRUE)

\* map_default_value, lines 245-247: strip, then peel '(' ... ')' while both ends match
RECURSIVE Peel(_)
Peel(s) ==
    IF s # <<>> /\ s[1] = "(" /\ s[Len(s)] = ")"
    THEN Peel(Strip(SubSeq(s, 2, Len(s) - 1)))
    ELSE s

NormalizeDefault(default_value) == Peel(Strip(default_value))

\* the default cache is a dict iterated in insertion order: a sequence of <<key, value>>
Keys(d) == {d[i][1] : i \in 1..Len(d)}
Get(d, k) == d[CHOOSE i \in 1..Len(d) : d[i][1] = k][2]
PutMutant(d, k, v) == << <<k, v>> >>
Put(d, k, v) ==
    IF k \in Keys(d)
    THEN [i \in 1..Len(d) |-> IF d[i][1] = k THEN <<k, v>> ELSE d[i]]
    ELSE Append(d, <<k, v>>)

\* position of the first "::" in s, 0 if there is none
FirstColonColon(s) ==
    IF Contains(s, ColonColon)
    THEN CHOOSE i \in 1..(Len(s) - 1) :
            /\ SubSeq(s, i, i + 1) = ColonColon
            /\ \A j \in 1..(i - 1) : SubSeq(s, j, j + 1) # ColonColon
    ELSE 0

\* re.fullmatch(pattern, s, re.IGNORECASE) for patterns made of literal
\* characters and groups: "error" (re.error) when the parentheses of the pattern
\* do not balance, else whether s is the pattern without its parentheses
RECURSIVE Depths(_, _)
Depths(p, d) ==
    IF p = <<>> THEN <<d>>
    ELSE LET e == IF p[1] = "(" THEN d + 1 ELSE IF p[1] = ")" THEN d - 1 ELSE d
         IN  <<d>> \o Depths(Tail(p), e)

Balanced(p) ==
    LET ds == Depths(p, 0)
    IN  (\A i \in 1..Len(ds) : ds[i] >= 0) /\ ds[Len(ds)] = 0

Literals(p) == Filter(p, Range(p) \ {"(", ")"})

FullMatch(p, s) ==
    IF ~Balanced(p) THEN "error"
    ELSE IF Lower(Literals(p)) = Lower(s) THEN "match" ELSE "nomatch"

\* map_default_value, lines 255-261: the first entry, in dict order, that decides
\* the loop: "none", "error" (re.error is raised) or "match" with the entry's value
RECURSIVE PatternScan(_, _, _, _)
PatternScan(d, i, t, default_value) ==
    IF i > Len(d) THEN [kind |-> "none", value |-> <<>>]
    ELSE LET pattern_key == d[i][1]
             c == FirstColonColon(pattern_key)
         IN  IF c = 0 \/ SubSeq(pattern_key, 1, c - 1) # t
             THEN PatternScan(d, i + 1, t, default_value)
             ELSE LET m == FullMatch(SubSeq(pattern_key, c + 2, Len(pattern_key)),
                                     default_value)
                  IN  IF m = "error" THEN [kind |-> "error", value |-> <<>>]
                      ELSE IF m = "match" THEN [kind |-> "match", value |-> d[i][2]]
                      ELSE PatternScan(d, i + 1, t, default_value)

\* map_default_value, lines 252-276, once the key is computed
MapDefaultLookupMutant(cache, t, default_value, answer) ==
    IF answer = OracleRaises
    THEN Raises(cache, TRUE)
    ELSE Returns(DEFAULT_ \o answer,
                 Put(cache, t \o ColonColon \o default_value, answer), TRUE)
MapDefaultLookup(cache, t, default_value, answer) ==
    LET key == t \o ColonColon \o default_value
        scan == PatternScan(cache, 1, t, default_value)
    IN  IF key \in Keys(cache)
        THEN Returns(DEFAULT_ \o Get(cache, key), cache, FALSE)
        ELSE IF scan.kind = "match"
        THEN Returns(DEFAULT_ \o scan.value, Put(cache, key, scan.value), FALSE)
        ELSE IF scan.kind = "error"
        THEN Raises(cache, FALSE)
        ELSE IF answer = OracleRaises
        THEN Raises(cache, TRUE)
        ELSE Returns(DEFAULT_ \o answer, Put(cache, key, answer), TRUE)

\* map_default_value(default_value, sqlserver_type); a = <<default_value, sqlserver_type>>
\* (an absent default, None or '', is the empty sequence)
MapDefaultValue(cache, a, answer) ==
    IF a[1] = <<>>
    THEN Returns(<<>>, cache, FALSE)
    ELSE MapDefaultLookup(cache, Lower(a[2]), NormalizeDefault(a[1]), answer)

\* arguments the translator is called with
TypeArgs ==
    { <<varchar, Some(8), None, None>>, <<varchar, Some(-1), None, None>>,
      <<VARCHAR, Some(8), None, None>>, <<decimal, None, Some(5), Some(2)>>,
      <<decimal, None, Some(5), Some(0)>>, <<decimal, None, Some(5), None>>,
      <<bit, None, None, None>> }

RawDefaults ==
    { <<>>,
      <<"0">>,
      <<"(", "(", "0", ")", ")">>,
      <<"(", "1", ")">>,
      <<"(", " ", "(", "1", ")", " ", ")">>,
      <<"(", "(", "0", ")", "1", ")">>,
      <<"0", "1">>,
      <<"(", "0", ")", "(", "1", ")">> }

DefaultArgs == {<<d, t>> : d \in RawDefaults, t \in {bit, BIT}}

\* first tokens the oracle may answer with
TypeTokens == {varchar, text, numeric}
DefaultTokens == {FALSE_, TRUE_, zero}

\* cache files the schema stage may find
NoTypes == [t \in {} |-> <<>>]

TypeFiles ==
    { NoTypes,
      (varchar :> varchar) @@ (decimal :> numeric) }

DefaultFiles ==
    { <<>>,
      << <<bit \o ColonColon \o zero, FALSE_>>, <<bit \o ColonColon \o one, TRUE_>> >> }


-----------------------------------------------------------------------------
(* SpecMap: calls of map_data_type and map_default_value on the cache files *)

NoCall == [fn |-> "none", args |-> <<>>, raised |-> FALSE, result |-> <<>>,
           oracle |-> FALSE, cachedBefore |-> FALSE]

\* history of the returned map_data_type calls, per argument tuple
Seen(seen, a, r) ==
    LET old == IF a \in DOMAIN seen THEN seen[a]
               ELSE [results |-> {}, calls |-> 0, oracle |-> 0]
    IN  DictPut(seen, a, [results |-> old.results \cup {r.result},
                          calls   |-> old.calls + 1,
                          oracle  |-> old.oracle + (IF r.oracle THEN 1 ELSE 0)])

\* f"{sqlserver_type.lower()}::{default_value}" of a call's arguments   line 250
DefaultKey(a) == Lower(a[2]) \o ColonColon \o NormalizeDefault(a[1])

MapInit ==
    /\ SortIdle
    /\ DataIdle
    /\ VerIdle
    /\ DdlIdle
    /\ ImpIdle
    /\ PostIdle
    /\ CountIdle
    /\ PipeIdle
    /\ type_mappings \in TypeFiles
    /\ default_mappings \in DefaultFiles
    /\ typeSeen = [a \in {} |-> <<>>]
    /\ lastCall = NoCall
    /\ nCalls = 0

\* generate_postgres_schema, line 285: pg_type = map_data_type(...)
CallMapDataType ==
    /\ nCalls < MaxCalls
    /\ \E a \in TypeArgs, answer \in TypeTokens \cup {OracleRaises} :
          LET r == MapDataType(type_mappings, a, answer)
          IN  /\ type_mappings' = r.cache
              /\ lastCall' = [fn |-> "map_data_type", args |-> a, raised |-> r.raised,
                              result |-> r.result, oracle |-> r.oracle,
                              cachedBefore |-> Lower(a[1]) \in DOMAIN type_mappings]
              /\ typeSeen' = IF r.raised THEN typeSeen ELSE Seen(typeSeen, a, r)
    /\ nCalls' = nCalls + 1
    /\ UNCHANGED <<notMap, default_mappings>>

\* generate_postgres_schema, line 291: default_value = map_default_value(...)
CallMapDefaultValue ==
    /\ nCalls < MaxCalls
    /\ \E a \in DefaultArgs, answer \in DefaultTokens \cup {OracleRaises} :
          LET r == MapDefaultValue(default_mappings, a, answer)
          IN  /\ default_mappings' = r.cache
              /\ lastCall' = [fn |-> "map_default_value", args |-> a, raised |-> r.raised,
                              result |-> r.result, oracle |-> r.oracle,
                              cachedBefore |-> a[1] # <<>> /\ DefaultKey(a) \in Keys(default_mappings)]
    /\ nCalls' = nCalls + 1
    /\ UNCHANGED <<notMap, type_mappings, typeSeen>>

MapNext == CallMapDataType \/ CallMapDefaultValue

SpecMap == MapInit /\ [][MapNext]_vars

-----------------------------------------------------------------------------
(* verify_migration: foreign-key reconciliation (main, lines 304-322) *)

\* foreign keys the catalogs may hold:
\* (schema, table, column, ref_schema, ref_table, ref_column, constraint_name)
FkPool ==
    {<<"s", "t", c, "s", "r", "id", cn>> : c \in {"c1", "c2"}, cn \in {"fk1", "fk2"}}
        \cup {<<"s", "t", "c3", "s", "r", "id", "fk3">>}

\* normalize_fk, lines 188-189: the tuple without the constraint name
normalize_fkMutant(fk) == fk
normalize_fk(fk) == <<fk[1], fk[2], fk[3], fk[4], fk[5], fk[6]>>

\* {normalize_fk(fk): fk for fk in fks}, lines 191-192: per key, the foreign key
\* the iteration over the set delivered last (any of those with that key)
NormalizedDicts(fks) ==
    LET keys == {normalize_fk(fk) : fk \in fks}
    IN  {d \in [keys -> fks] : \A k \in keys : normalize_fk(d[k]) = k}

\* list(a[k] for k in a if k not in b), lines 194-195: the values, in the dict's order
NotIn(a, b) == Orderings({a[k] : k \in (DOMAIN a) \ (DOMAIN b)})

\* str(e) of the exceptions ALTER TABLE ... ADD CONSTRAINT may raise; the second
\* is the DETAIL line of a foreign-key violation, which quotes the offending key value
MsgDenied == <<"d", "e", "n", "i", "e", "d">>
MsgKeyDetail == <<"K", "e", "y", " ", "(", "A", "l", "r", "e", "a", "d", "y", " ",
                  "E", "x", "i", "s", "t", "s", ")">>
ErrorMessages == {MsgDenied, MsgKeyDetail}

already_exists == <<"a", "l", "r", "e", "a", "d", "y", " ", "e", "x", "i", "s", "t", "s">>

\* add_missing_fk, lines 218-224: a constraint of that name exists on that table
ConstraintExistsMutant(dst, fk) == FALSE
ConstraintExists(dst, fk) ==
    \E g \in dst : g[7] = fk[7] /\ g[1] = fk[1] /\ g[2] = fk[2]

\* add_missing_fk, lines 235-238
RecordFailure(fks, fk, error_msg) ==
    IF ~Contains(Lower(error_msg), already_exists)
    THEN Append(fks, <<fk, error_msg>>)
    ELSE fks

\* prompt_drop_fk, line 204: the answer is fixed
responseMutant == "y"
response == "n"

\* prompt_drop_fk, lines 205-211
PromptDropFk(dst, fk) == IF response = "y" THEN dst \ {fk} ELSE dst

VerInit ==
    /\ SortIdle
    /\ DataIdle
    /\ MapIdle
    /\ DdlIdle
    /\ ImpIdle
    /\ PostIdle
    /\ CountIdle
    /\ PipeIdle
    /\ src_fk \in SUBSET FkPool
    /\ dst_fk \in SUBSET FkPool
    /\ dstAtStart = dst_fk
    /\ missing_in_pg = <<>>
    /\ extra_in_pg = <<>>
    /\ failed_fks = <<>>
    /\ verPc = "idle"
    /\ verIdx = 0
    /\ verRun = 0
    /\ addRaised = {}
    /\ addTried = {}
    /\ flagged = {}

\* main, lines 304-309: failed_fks = [], fetch both sides, compare_foreign_keys
VerifyStart ==
    /\ verPc \in {"idle", "done"}
    /\ verRun < MaxVerifyRuns
    /\ verRun' = verRun + 1
    /\ failed_fks' = <<>>
    /\ \E src_normalized \in NormalizedDicts(src_fk), dst_normalized \in NormalizedDicts(dst_fk) :
          /\ missing_in_pg' \in NotIn(src_normalized, dst_normalized)
          /\ extra_in_pg' \in NotIn(dst_normalized, src_normalized)
    /\ verPc' = "add"
    /\ verIdx' = 1
    /\ addRaised' = {}
    /\ addTried' = {}
    /\ flagged' = {}
    /\ UNCHANGED <<notVer, src_fk, dst_fk, dstAtStart>>

\* add_missing_fk, lines 218-224: the constraint name is taken: return
AddSkip ==
    /\ verPc = "add"
    /\ verIdx <= Len(missing_in_pg)
    /\ ConstraintExists(dst_fk, missing_in_pg[verIdx])
    /\ addTried' = addTried \cup {missing_in_pg[verIdx]}
    /\ verIdx' = verIdx + 1
    /\ UNCHANGED <<notVer, src_fk, dst_fk, missing_in_pg, extra_in_pg, failed_fks, verPc,
                   verRun, addRaised, flagged, dstAtStart>>

\* add_missing_fk, lines 226-232: ALTER TABLE ... ADD CONSTRAINT and commit return
AddOk ==
    /\ verPc = "add"
    /\ verIdx <= Len(missing_in_pg)
    /\ ~ConstraintExists(dst_fk, missing_in_pg[verIdx])
    /\ dst_fk' = dst_fk \cup {missing_in_pg[verIdx]}
    /\ addTried' = addTried \cup {missing_in_pg[verIdx]}
    /\ verIdx' = verIdx + 1
    /\ UNCHANGED <<notVer, src_fk, missing_in_pg, extra_in_pg, failed_fks, verPc, verRun,
                   addRaised, flagged, dstAtStart>>

\* add_missing_fk, lines 226-238: the ALTER (or the commit) raises: rollback, and
\* the failure is recorded unless its message contains "already exists"
AddFail ==
    /\ verPc = "add"
    /\ verIdx <= Len(missing_in_pg)
    /\ ~ConstraintExists(dst_fk, missing_in_pg[verIdx])
    /\ \E error_msg \in ErrorMessages :
          /\ failed_fks' = RecordFailure(failed_fks, missing_in_pg[verIdx], error_msg)
          /\ addRaised' = addRaised \cup {<<missing_in_pg[verIdx], error_msg>>}
    /\ addTried' = addTried \cup {missing_in_pg[verIdx]}
    /\ verIdx' = verIdx + 1
    /\ UNCHANGED <<notVer, src_fk, dst_fk, missing_in_pg, extra_in_pg, verPc, verRun,
                   flagged, dstAtStart>>

\* main, lines 311-321: the additions are over, the failures are logged
AddsDone ==
    /\ verPc = "add"
    /\ verIdx > Len(missing_in_pg)
    /\ verPc' = "drop"
    /\ verIdx' = 1
    /\ UNCHANGED <<notVer, src_fk, dst_fk, missing_in_pg, extra_in_pg, failed_fks, verRun,
                   addRaised, addTried, flagged, dstAtStart>>

\* main, lines 321-322: prompt_drop_fk(dst_conn, logger, fk)
DropStep ==
    /\ verPc = "drop"
    /\ verIdx <= Len(extra_in_pg)
    /\ flagged' = flagged \cup {extra_in_pg[verIdx]}
    /\ dst_fk' = PromptDropFk(dst_fk, extra_in_pg[verIdx])
    /\ verIdx' = verIdx + 1
    /\ UNCHANGED <<notVer, src_fk, missing_in_pg, extra_in_pg, failed_fks, verPc, verRun,
                   addRaised, addTried, dstAtStart>>

\* main, lines 324-337: the report is written with failed_fks, connections closed
VerifyFinish ==
    /\ verPc = "drop"
    /\ verIdx > Len(extra_in_pg)
    /\ verPc' = "done"
    /\ UNCHANGED <<notVer, src_fk, dst_fk, missing_in_pg, extra_in_pg, failed_fks, verIdx,
                   verRun, addRaised, addTried, flagged, dstAtStart>>

VerNext ==
    \/ VerifyStart
    \/ AddSkip
    \/ AddOk
    \/ AddFail
    \/ AddsDone
    \/ DropStep
    \/ VerifyFinish

SpecVerify == VerInit /\ [][VerNext]_vars

-----------------------------------------------------------------------------
(* SpecDdl: migrate_schema.main, lines 353-403: sort, generate, write the document *)

\* the bookkeeping of SpecMap, which the schema stage does not touch
mapHist == <<typeSeen, lastCall, nCalls>>

\* tables and columns the source catalog may hold
DdlPool == {s_a, s_b, s_ab}

DdlColumns ==
    { << <<varchar, Some(8), None, None>>, <<>> >>,
      << <<bit, None, None, None>>, <<"(", "(", "0", ")", ")">> >> }

\* what the oracle may do when the schema stage consults it
DdlTypeAnswers == {boolean, OracleRaises}
DdlDefaultAnswers == {FALSE_, OracleRaises}

\* get_sqlserver_schema(connection_string, schema_name, table_name): the position
\* of the table in the catalog, 0 when the catalog has no such table (no columns)
GetSqlserverSchema(schema_name, table_name) ==
    IF \E i \in 1..Len(tables) : tables[i] = <<schema_name, table_name>>
    THEN CHOOSE i \in 1..Len(tables) : tables[i] = <<schema_name, table_name>>
    ELSE 0

\* a statement of the document
Stmt(kind, table, ref, cols) ==
    [kind |-> kind, table |-> table, ref |-> ref, columns |-> cols]

\* extension_comments, lines 374-379
extension_comments ==
    << Stmt("extension postgis", <<>>, <<>>, <<>>), Stmt("extension ltree", <<>>, <<>>, <<>>) >>

\* generate_postgres_schema, line 299: CREATE TABLE "schema"."table" (columns)
CreateTableStmt(table, cols) == Stmt("create", table, <<>>, cols)

\* generate_postgres_schema, lines 301-319: one ALTER TABLE ... ADD CONSTRAINT per
\* constraint (every foreign-key row of the catalog is a constraint of its own)
FkStatements(table, foreign_keys) ==
    [k \in 1..Len(foreign_keys) |-> Stmt("fk", table, foreign_keys[k], <<>>)]

\* generate_postgres_schema, lines 321-325: one CREATE INDEX per index
IndexStatements(table, n) == [k \in 1..n |-> Stmt("index", table, <<>>, <<>>)]

\* main, lines 393-400: the order in which the file is written
WriteDocumentMutant(creates, fks, indexes) == extension_comments \o fks \o creates \o indexes
WriteDocument(creates, fks, indexes) == extension_comments \o creates \o fks \o indexes

DdlInit ==
    /\ DataIdle
    /\ VerIdle
    /\ ImpIdle
    /\ PostIdle
    /\ CountIdle
    /\ PipeIdle
    /\ tables \in {q \in SeqsUpTo(DdlPool, MaxDdlTables) : NoDup(q)}
    /\ srcFks \in [1..Len(tables) -> SeqsUpTo(DdlPool, MaxDdlFks)]
    /\ srcCols \in [1..Len(tables) -> SeqsUpTo(DdlColumns, MaxCols) \ {<<>>}]
    /\ srcIndexes \in [1..Len(tables) -> 0..MaxIndexes]
    /\ in_degree_keys = <<>>
    /\ in_degree = <<>>
    /\ graph = <<>>
    /\ queue = <<>>
    /\ sorted_tables = <<>>
    /\ sortResult = <<>>
    /\ sortPc = "idle"
    /\ type_mappings \in TypeFiles
    /\ default_mappings \in DefaultFiles
    /\ typeSeen = <<>>
    /\ lastCall = <<>>
    /\ nCalls = 0
    /\ ddlPc = "start"
    /\ ddlIdx = 0
    /\ colIdx = 0
    /\ colType = <<>>
    /\ column_definitions = <<>>
    /\ create_table_statements = <<>>
    /\ fk_statements = <<>>
    /\ index_statements = <<>>
    /\ document = <<>>
    /\ written = "no"
    /\ oracleFailed = FALSE

\* lines 354-357: no tables: log and return
DdlNoTables ==
    /\ ddlPc = "start"
    /\ tables = <<>>
    /\ ddlPc' = "done"
    /\ UNCHANGED <<notDdl, sortVars, mapVars, srcCols, srcIndexes, ddlIdx, colIdx, colType,
                   column_definitions, create_table_statements, fk_statements,
                   index_statements, document, written, oracleFailed>>

\* lines 361-368: foreign_keys_map is built, topological_sort_tables is called
DdlCallSort ==
    /\ ddlPc = "start"
    /\ tables # <<>>
    /\ sortPc' = "init"
    /\ ddlPc' = "loop"
    /\ ddlIdx' = 1
    /\ UNCHANGED <<notDdl, mapVars, tables, srcFks, in_degree_keys, in_degree, graph, queue,
                   sorted_tables, sortResult, srcCols, srcIndexes, colIdx, colType,
                   column_definitions, create_table_statements, fk_statements,
                   index_statements, document, written, oracleFailed>>

\* lines 381-390: the next table of sorted_tables has no columns in the catalog: skipped
DdlSkipTable ==
    /\ ddlPc = "loop"
    /\ sortPc = "done"
    /\ ddlIdx <= Len(sortResult)
    /\ GetSqlserverSchema(sortResult[ddlIdx][1], sortResult[ddlIdx][2]) = 0
    /\ ddlIdx' = ddlIdx + 1
    /\ UNCHANGED <<notDdl, sortVars, mapVars, srcCols, srcIndexes, ddlPc, colIdx, colType,
                   column_definitions, create_table_statements, fk_statements,
                   index_statements, document, written, oracleFailed>>

\* lines 170-172 and 381-390: get_sqlserver_schema catches a pyodbc.Error for the
\* next table and returns None for its columns: the table is skipped
DdlReadFail ==
    /\ ddlPc = "loop"
    /\ sortPc = "done"
    /\ ddlIdx <= Len(sortResult)
    /\ GetSqlserverSchema(sortResult[ddlIdx][1], sortResult[ddlIdx][2]) # 0
    /\ ddlIdx' = ddlIdx + 1
    /\ UNCHANGED <<notDdl, sortVars, mapVars, srcCols, srcIndexes, ddlPc, colIdx, colType,
                   column_definitions, create_table_statements, fk_statements,
                   index_statements, document, written, oracleFailed>>

\* lines 381-385 and 282-283: generate_postgres_schema is entered for the next table
DdlEnterTable ==
    /\ ddlPc = "loop"
    /\ sortPc = "done"
    /\ ddlIdx <= Len(sortResult)
    /\ GetSqlserverSchema(sortResult[ddlIdx][1], sortResult[ddlIdx][2]) # 0
    /\ column_definitions' = <<>>
    /\ colIdx' = 1
    /\ ddlPc' = "type"
    /\ UNCHANGED <<notDdl, sortVars, mapVars, srcCols, srcIndexes, ddlIdx, colType,
                   create_table_statements, fk_statements, index_statements, document,
                   written, oracleFailed>>

\* line 285: pg_type = map_data_type(...); an exception of the oracle is caught
\* neither in map_data_type, nor in generate_postgres_schema, nor in main
DdlMapType ==
    /\ ddlPc = "type"
    /\ LET i == GetSqlserverSchema(sortResult[ddlIdx][1], sortResult[ddlIdx][2])
       IN  /\ colIdx <= Len(srcCols[i])
           /\ \E answer \in DdlTypeAnswers :
                 LET r == MapDataType(type_mappings, srcCols[i][colIdx][1], answer)
                 IN  /\ type_mappings' = r.cache
                     /\ oracleFailed' = (oracleFailed \/ r.raised)
                     /\ colType' = r.result
                     /\ ddlPc' = IF r.raised THEN "crashed" ELSE "default"
    /\ UNCHANGED <<notDdl, sortVars, mapHist, default_mappings, srcCols, srcIndexes, ddlIdx,
                   colIdx, column_definitions, create_table_statements, fk_statements,
                   index_statements, document, written>>

\* lines 291-292: default_value = map_default_value(...); the column definition is appended
DdlMapDefault ==
    /\ ddlPc = "default"
    /\ LET i == GetSqlserverSchema(sortResult[ddlIdx][1], sortResult[ddlIdx][2])
       IN  \E answer \in DdlDefaultAnswers :
              LET a == <<srcCols[i][colIdx][2], srcCols[i][colIdx][1][1]>>
                  r == MapDefaultValue(default_mappings, a, answer)
              IN  /\ default_mappings' = r.cache
                  /\ oracleFailed' = (oracleFailed \/ r.raised)
                  /\ column_definitions' =
                        IF r.raised THEN column_definitions
                        ELSE Append(column_definitions, <<colType, r.result>>)
                  /\ colIdx' = IF r.raised THEN colIdx ELSE colIdx + 1
                  /\ ddlPc' = IF r.raised THEN "crashed" ELSE "type"
    /\ UNCHANGED <<notDdl, sortVars, mapHist, type_mappings, srcCols, srcIndexes, ddlIdx,
                   colType, create_table_statements, fk_statements, index_statements,
                   document, written>>

\* lines 294-327 and 386-388: the table's statements are built and collected
DdlTableDone ==
    /\ ddlPc = "type"
    /\ LET i == GetSqlserverSchema(sortResult[ddlIdx][1], sortResult[ddlIdx][2])
           table == sortResult[ddlIdx]
       IN  /\ colIdx > Len(srcCols[i])
           /\ create_table_statements' =
                 Append(create_table_statements, CreateTableStmt(table, column_definitions))
           /\ fk_statements' = fk_statements \o FkStatements(table, srcFks[i])
           /\ index_statements' = index_statements \o IndexStatements(table, srcIndexes[i])
    /\ ddlIdx' = ddlIdx + 1
    /\ ddlPc' = "loop"
    /\ UNCHANGED <<notDdl, sortVars, mapVars, srcCols, srcIndexes, colIdx, colType,
                   column_definitions, document, written, oracleFailed>>

\* lines 392-401: the document is written
DdlWriteOk ==
    /\ ddlPc = "loop"
    /\ sortPc = "done"
    /\ ddlIdx > Len(sortResult)
    /\ document' = WriteDocument(create_table_statements, fk_statements, index_statements)
    /\ written' = "ok"
    /\ ddlPc' = "done"
    /\ UNCHANGED <<notDdl, sortVars, mapVars, srcCols, srcIndexes, ddlIdx, colIdx, colType,
                   column_definitions, create_table_statements, fk_statements,
                   index_statements, oracleFailed>>

\* lines 392-403: open or write raises IOError: the file holds what was written so far
DdlWriteFail ==
    /\ ddlPc = "loop"
    /\ sortPc = "done"
    /\ ddlIdx > Len(sortResult)
    /\ LET full == WriteDocument(create_table_statements, fk_statements, index_statements)
       IN  \E n \in 0..(Len(full) - 1) : document' = SubSeq(full, 1, n)
    /\ written' = "ioerror"
    /\ ddlPc' = "done"
    /\ UNCHANGED <<notDdl, sortVars, mapVars, srcCols, srcIndexes, ddlIdx, colIdx, colType,
                   column_definitions, create_table_statements, fk_statements,
                   index_statements, oracleFailed>>

DdlNext ==
    \/ DdlNoTables
    \/ DdlCallSort
    \/ SortBuild
    \/ SortStep
    \/ SortReturn
    \/ DdlSkipTable
    \/ DdlReadFail
    \/ DdlEnterTable
    \/ DdlMapType
    \/ DdlMapDefault
    \/ DdlTableDone
    \/ DdlWriteOk
    \/ DdlWriteFail

SpecDdl == DdlInit /\ [][DdlNext]_vars

-----------------------------------------------------------------------------
(* SpecImport: migrate_data_1.main applies the files of sql_dir to the target *)

\* files sql_dir may hold, each <<stem, suffix>>; the data files are the
\* {schema}.{table}.sql files written by migrate_script.export_table
convert_file == <<"_convert_types", "sql">>
f_notes == <<"notes", "txt">>
f_sa == <<"s.a", "sql">>
f_sb == <<"s.b", "sql">>
f_ta == <<"t.a", "sql">>

\* the pool in the order sorted() gives its paths ('_' < 'n' < 's' < 't')
PathOrder == <<convert_file, f_notes, f_sa, f_sb, f_ta>>

\* sql_dir.glob("*.sql")
Glob(dir) == {p \in dir : p[2] = "sql"}

\* sorted(S)
Sorted(S) == Filter(PathOrder, S)

\* line 69: sorted(p for p in sql_dir.glob("*.sql") if p.name != "_convert_types.sql")
DataFilesMutant(dir) == Sorted(Glob(dir))
DataFiles(dir) == Sorted({p \in Glob(dir) : p # convert_file})

\* the statements of file f, in file order
Statements(f, n) == [k \in 1..n |-> <<f, k>>]

\* run_sql_file, line 24: conn.rollback() discards the uncommitted statements
RollbackFileMutant(t) == t
RollbackFile(t) == <<>>

ImpInit ==
    /\ SortIdle
    /\ DataIdle
    /\ MapIdle
    /\ VerIdle
    /\ DdlIdle
    /\ PostIdle
    /\ CountIdle
    /\ PipeIdle
    /\ dirExists \in BOOLEAN
    /\ impDir \in IF dirExists THEN SUBSET Range(PathOrder) ELSE {{}}
    /\ fileStmts \in [Glob(impDir) -> 1..MaxFileStmts]
    /\ sql_files = <<>>
    /\ impIdx = 0
    /\ impPc = "start"
    /\ filepath = <<>>
    /\ impCaller = "none"
    /\ impTxn = <<>>
    /\ impTarget = {}
    /\ impRole = "origin"
    /\ impRoleCommitted = "origin"
    /\ applied = <<>>
    /\ impFailed = {}

\* lines 48-50: the SQL directory does not exist: log and return
ImpNoDir ==
    /\ impPc = "start"
    /\ ~dirExists
    /\ impPc' = "returned"
    /\ UNCHANGED <<notImp, dirExists, impDir, fileStmts, sql_files, impIdx, filepath,
                   impCaller, impTxn, impTarget, impRole, impRoleCommitted, applied,
                   impFailed>>

\* lines 52-62: psycopg2.connect raises: log and return
ImpConnectFail ==
    /\ impPc = "start"
    /\ dirExists
    /\ impPc' = "returned"
    /\ UNCHANGED <<notImp, dirExists, impDir, fileStmts, sql_files, impIdx, filepath,
                   impCaller, impTxn, impTarget, impRole, impRoleCommitted, applied,
                   impFailed>>

\* lines 52-69: connected; set_replication_role(conn, "replica") runs its SET in the
\* transaction psycopg2 opens for it and does not commit; the data files are listed
ImpStart ==
    /\ impPc = "start"
    /\ dirExists
    /\ impRole' = SetRole(impRole, "replica")
    /\ sql_files' = DataFiles(impDir)
    /\ impIdx' = 1
    /\ impPc' = "loop"
    /\ UNCHANGED <<notImp, dirExists, impDir, fileStmts, filepath, impCaller, impTxn,
                   impTarget, impRoleCommitted, applied, impFailed>>

\* lines 70-71: run_sql_file is called for the next data file
ImpNextFile ==
    /\ impPc = "loop"
    /\ impIdx <= Len(sql_files)
    /\ filepath' = sql_files[impIdx]
    /\ impCaller' = "loop"
    /\ impPc' = "open"
    /\ UNCHANGED <<notImp, dirExists, impDir, fileStmts, sql_files, impIdx, impTxn,
                   impTarget, impRole, impRoleCommitted, applied, impFailed>>

\* the for loop of lines 70-71 is exhausted
ImpLoopEnd ==
    /\ impPc = "loop"
    /\ impIdx > Len(sql_files)
    /\ impPc' = "convert"
    /\ UNCHANGED <<notImp, dirExists, impDir, fileStmts, sql_files, impIdx, filepath,
                   impCaller, impTxn, impTarget, impRole, impRoleCommitted, applied,
                   impFailed>>

\* lines 74-76: _convert_types.sql exists: run_sql_file is called for it
ImpConvert ==
    /\ impPc = "convert"
    /\ convert_file \in impDir
    /\ filepath' = convert_file
    /\ impCaller' = "convert"
    /\ impPc' = "open"
    /\ UNCHANGED <<notImp, dirExists, impDir, fileStmts, sql_files, impIdx, impTxn,
                   impTarget, impRole, impRoleCommitted, applied, impFailed>>

\* lines 74-76: _convert_types.sql does not exist
ImpNoConvert ==
    /\ impPc = "convert"
    /\ convert_file \notin impDir
    /\ impPc' = "restore"
    /\ UNCHANGED <<notImp, dirExists, impDir, fileStmts, sql_files, impIdx, filepath,
                   impCaller, impTxn, impTarget, impRole, impRoleCommitted, applied,
                   impFailed>>

\* run_sql_file, lines 16-17: the file is opened and read
ImpReadOk ==
    /\ impPc = "open"
    /\ impPc' = "execute"
    /\ UNCHANGED <<notImp, dirExists, impDir, fileStmts, sql_files, impIdx, filepath,
                   impCaller, impTxn, impTarget, impRole, impRoleCommitted, applied,
                   impFailed>>

\* run_sql_file, lines 16-17: open or read raises, outside the try of line 18;
\* nothing in main catches it
ImpReadFail ==
    /\ impPc = "open"
    /\ impPc' = "crashed"
    /\ UNCHANGED <<notImp, dirExists, impDir, fileStmts, sql_files, impIdx, filepath,
                   impCaller, impTxn, impTarget, impRole, impRoleCommitted, applied,
                   impFailed>>

\* run_sql_file returns to main: next file of the loop, or on to line 79
ImpReturn ==
    /\ impPc' = IF impCaller = "loop" THEN "loop" ELSE "restore"
    /\ impIdx' = IF impCaller = "loop" THEN impIdx + 1 ELSE impIdx

\* lines 23-25: except Exception: conn.rollback(); log
ImpHandler ==
    /\ impRole' = RollbackRole(impRole, impRoleCommitted)
    /\ impFailed' = impFailed \cup {filepath}
    /\ ImpReturn

\* lines 19-20: cur.execute(sql) runs every statement of the file
ImpExecuteOk ==
    /\ impPc = "execute"
    /\ impTxn' = impTxn \o Statements(filepath, fileStmts[filepath])
    /\ applied' = Append(applied, [file |-> filepath, role |-> impRole])
    /\ impPc' = "commit"
    /\ UNCHANGED <<notImp, dirExists, impDir, fileStmts, sql_files, impIdx, filepath,
                   impCaller, impTarget, impRole, impRoleCommitted, impFailed>>

\* lines 19-20: the k-th statement of the file raises, the ones before it have run
ImpExecuteFail ==
    /\ impPc = "execute"
    /\ \E k \in 1..fileStmts[filepath] :
          impTxn' = RollbackFile(impTxn \o Statements(filepath, k - 1))
    /\ applied' = Append(applied, [file |-> filepath, role |-> impRole])
    /\ ImpHandler
    /\ UNCHANGED <<notImp, dirExists, impDir, fileStmts, sql_files, filepath, impCaller,
                   impTarget, impRoleCommitted>>

\* line 21: conn.commit() returns
ImpCommitOk ==
    /\ impPc = "commit"
    /\ impTarget' = impTarget \cup Range(impTxn)
    /\ impTxn' = <<>>
    /\ impRoleCommitted' = impRole
    /\ ImpReturn
    /\ UNCHANGED <<notImp, dirExists, impDir, fileStmts, sql_files, filepath, impCaller,
                   impRole, applied, impFailed>>

\* line 21: conn.commit() raises
ImpCommitFail ==
    /\ impPc = "commit"
    /\ impTxn' = RollbackFile(impTxn)
    /\ ImpHandler
    /\ UNCHANGED <<notImp, dirExists, impDir, fileStmts, sql_files, filepath, impCaller,
                   impTarget, impRoleCommitted, applied>>

\* lines 79-82: set_replication_role(conn, "default"); conn.close() ends the
\* session, what is uncommitted is discarded
ImpRestore ==
    /\ impPc = "restore"
    /\ impRole' = SetRole(impRole, "origin")
    /\ impTxn' = <<>>
    /\ impPc' = "done"
    /\ UNCHANGED <<notImp, dirExists, impDir, fileStmts, sql_files, impIdx, filepath,
                   impCaller, impTarget, impRoleCommitted, applied, impFailed>>

ImpNext ==
    \/ ImpNoDir
    \/ ImpConnectFail
    \/ ImpStart
    \/ ImpNextFile
    \/ ImpLoopEnd
    \/ ImpConvert
    \/ ImpNoConvert
    \/ ImpReadOk
    \/ ImpReadFail
    \/ ImpExecuteOk
    \/ ImpExecuteFail
    \/ ImpCommitOk
    \/ ImpCommitFail
    \/ ImpRestore

SpecImport == ImpInit /\ [][ImpNext]_vars

-----------------------------------------------------------------------------
(* SpecPost: migrate_script.generate_postprocess_sql writes _convert_types.sql *)

\* tables of the source in fetch_tables order (ORDER BY TABLE_SCHEMA, TABLE_NAME),
\* their columns in ORDINAL_POSITION order, the types get_safe_select_clause casts
CastTables == <<s_a, s_ab, s_b>>
CastColumns == <<"x", "y">>
CastTypes == {"geography", "hierarchyid", "sql_variant"}

\* casted_columns_map after the export loop: get_safe_select_clause appends
\* (col, dtype) under f"{schema}.{table}" for the casted columns `cols` (a set of
\* <<table, col>>) with types ty, table by table and column by column
CastedColumnsMap(cols, ty) ==
    LET tbls == Filter(CastTables, {c[1] : c \in cols})
        ColumnsOf(t) ==
            LET cs == Filter(CastColumns, {c[2] : c \in {d \in cols : d[1] = t}})
            IN  [j \in 1..Len(cs) |-> <<cs[j], ty[<<t, cs[j]>>]>>]
    IN  [i \in 1..Len(tbls) |-> <<TableKey(tbls[i]), ColumnsOf(tbls[i])>>]

\* a row of the query of build_foreign_key_usage: constraint `con` of column
\* from_c of table from_t references column to_c of table to_t
FkRow(con, from_t, from_c, to_t, to_c) ==
    [constraint |-> con, schema |-> from_t[1], table |-> from_t[2], column |-> from_c,
     tgt |-> <<to_t[1], to_t[2], to_c>>]

\* foreign keys the target catalog may hold
PgFkPool ==
    { FkRow("fk1", s_b, "x", s_a, "x"),      \* fk1 of s.b, first column pair
      FkRow("fk1", s_b, "y", s_a, "y"),      \* fk1 of s.b, second column pair
      FkRow("fk2", s_a, "y", s_a, "x"),      \* s.a references itself
      FkRow("fk3", s_a, "x", s_b, "x") }     \* s.a references s.b

\* build_foreign_key_usage, lines 94-102, then .get(key, []) of line 146:
\* the rows whose referenced column is key, in fetchall order
foreign_key_usage(rows, key) == Filter(rows, {r \in Range(rows) : r.tgt = key})

\* the statements written to the file
NoTable == <<>>
DropStmt(fk) ==
    [op |-> "DROP", table |-> <<fk.schema, fk.table>>, column |-> "",
     constraint |-> fk.constraint, type |-> "", ref |-> <<>>]
ExtensionStmt(name) ==
    [op |-> "EXTENSION", table |-> NoTable, column |-> "", constraint |-> "",
     type |-> name, ref |-> <<>>]
AlterStmt(schema, table, col, type) ==
    [op |-> "ALTER", table |-> <<schema, table>>, column |-> col, constraint |-> "",
     type |-> type, ref |-> <<>>]
CommentStmt(schema, table, col) ==
    [op |-> "COMMENT", table |-> <<schema, table>>, column |-> col, constraint |-> "",
     type |-> "sql_variant", ref |-> <<>>]
AddStmt(fk, schema, table, col) ==
    [op |-> "ADD", table |-> <<fk.schema, fk.table>>, column |-> fk.column,
     constraint |-> fk.constraint, type |-> "", ref |-> <<schema, table, col>>]

\* lines 156-200: the conversion of the column and of the referencing columns
Conversion(schema, table, col, dtype, fks, exts) ==
    LET convert(ext, type) ==
            (IF ext \notin exts THEN <<ExtensionStmt(ext)>> ELSE <<>>)
                \o <<AlterStmt(schema, table, col, type)>>
                \o [i \in 1..Len(fks) |->
                        AlterStmt(fks[i].schema, fks[i].table, fks[i].column, type)]
    IN  IF dtype = "hierarchyid" THEN convert("ltree", "ltree")
        ELSE IF dtype = "geography" THEN convert("postgis", "geometry")
        ELSE IF dtype = "sql_variant" THEN <<CommentStmt(schema, table, col)>>
        ELSE <<>>

\* lines 146-209: what the loop body writes for one casted column
ColumnBlock(schema, table, col, dtype, fks, exts) ==
    [i \in 1..Len(fks) |-> DropStmt(fks[i])]
        \o Conversion(schema, table, col, dtype, fks, exts)
        \o [i \in 1..Len(fks) |-> AddStmt(fks[i], schema, table, col)]

\* lines 157-159 and 176-178: extensions.add(...)
ExtensionsAfter(dtype, exts) ==
    IF dtype = "hierarchyid" THEN exts \cup {"ltree"}
    ELSE IF dtype = "geography" THEN exts \cup {"postgis"}
    ELSE exts

PostInit ==
    /\ SortIdle
    /\ DataIdle
    /\ MapIdle
    /\ VerIdle
    /\ DdlIdle
    /\ ImpIdle
    /\ CountIdle
    /\ PipeIdle
    /\ \E cols \in {c \in SUBSET (Range(CastTables) \X Range(CastColumns)) :
                        Cardinality(c) <= MaxCasted} :
          \E ty \in [cols -> CastTypes] :
              casted_columns_map = CastedColumnsMap(cols, ty)
    /\ pgFks \in {r \in SeqsUpTo(PgFkPool, MaxTargetFks) : NoDup(r)}
    /\ postPc = "table"
    /\ postIdx = 1
    /\ postColIdx = 0
    /\ postTable = <<>>
    /\ extensions = {}
    /\ artifact = <<>>

\* line 144: schema, table = full_table.split(".") with two parts
PostSplitOk ==
    /\ postPc = "table"
    /\ postIdx <= Len(casted_columns_map)
    /\ Len(SplitDot(casted_columns_map[postIdx][1])) = 2
    /\ postTable' = SplitDot(casted_columns_map[postIdx][1])
    /\ postColIdx' = 1
    /\ postPc' = "column"
    /\ UNCHANGED <<notPost, casted_columns_map, pgFks, postIdx, extensions, artifact>>

\* line 144: the unpacking raises ValueError when the key has another number of
\* parts; nothing catches it, the `with` closes the file with what was written
PostSplitFail ==
    /\ postPc = "table"
    /\ postIdx <= Len(casted_columns_map)
    /\ Len(SplitDot(casted_columns_map[postIdx][1])) # 2
    /\ postPc' = "crashed"
    /\ UNCHANGED <<notPost, casted_columns_map, pgFks, postIdx, postColIdx, postTable,
                   extensions, artifact>>

\* lines 145-209: one iteration of `for col, dtype in columns`
PostColumn ==
    /\ postPc = "column"
    /\ postColIdx <= Len(casted_columns_map[postIdx][2])
    /\ LET col == casted_columns_map[postIdx][2][postColIdx][1]
           dtype == casted_columns_map[postIdx][2][postColIdx][2]
           fks == foreign_key_usage(pgFks, <<postTable[1], postTable[2], col>>)
       IN  /\ artifact' = artifact \o
                 ColumnBlock(postTable[1], postTable[2], col, dtype, fks, extensions)
           /\ extensions' = ExtensionsAfter(dtype, extensions)
    /\ postColIdx' = postColIdx + 1
    /\ UNCHANGED <<notPost, casted_columns_map, pgFks, postPc, postIdx, postTable>>

\* the inner loop is exhausted: next table
PostTableDone ==
    /\ postPc = "column"
    /\ postColIdx > Len(casted_columns_map[postIdx][2])
    /\ postIdx' = postIdx + 1
    /\ postPc' = "table"
    /\ UNCHANGED <<notPost, casted_columns_map, pgFks, postColIdx, postTable, extensions,
                   artifact>>

\* line 211: the outer loop is exhausted, the file is closed
PostFinish ==
    /\ postPc = "table"
    /\ postIdx > Len(casted_columns_map)
    /\ postPc' = "done"
    /\ UNCHANGED <<notPost, casted_columns_map, pgFks, postIdx, postColIdx, postTable,
                   extensions, artifact>>

PostNext ==
    \/ PostSplitOk
    \/ PostSplitFail
    \/ PostColumn
    \/ PostTableDone
    \/ PostFinish

SpecPost == PostInit /\ [][PostNext]_vars

-----------------------------------------------------------------------------
(* Properties of topological_sort_tables *)

\* tables[i] has a foreign key referencing the in-scope table tables[j]
References(i, j) == tables[j] \in Range(srcFks[i])

\* indices reachable from i along at least one and at most n references
RECURSIVE ReachableWithin(_, _)
ReachableWithin(i, n) ==
    IF n = 0 THEN {}
    ELSE LET direct == {j \in 1..Len(tables) : References(i, j)}
         IN  direct \cup UNION {ReachableWithin(j, n - 1) : j \in direct}

Acyclic == \A i \in 1..Len(tables) : i \notin ReachableWithin(i, Len(tables))

DotFree == \A i \in 1..Len(tables) : "." \notin Range(tables[i][1]) \cup Range(tables[i][2])

EveryTableExactlyOnce ==
    /\ Len(sortResult) = Len(tables)
    /\ \A i \in 1..Len(tables) : Count(sortResult, tables[i]) = 1

Position(t) == CHOOSE p \in 1..Len(sortResult) : sortResult[p] = t

ReferencedFirst ==
    \A i, j \in 1..Len(tables) :
        References(i, j) => Position(tables[j]) < Position(tables[i])

\* C1: for an acyclic in-scope foreign-key graph the sort returns every input
\* table exactly once, and every referenced in-scope table precedes each table
\* that references it.
C1_AcyclicSorted ==
    (sortPc = "done" /\ Acyclic) => (EveryTableExactlyOnce /\ ReferencedFirst)

\* C2: for a foreign-key graph containing a cycle the sort's output still
\* contains every input table exactly once.
C2_CyclicComplete ==
    (sortPc = "done" /\ ~Acyclic) => EveryTableExactlyOnce

\* With identifiers that contain no '.', both statements hold.
DotFreeAcyclicSorted ==
    (sortPc = "done" /\ Acyclic /\ DotFree) => (EveryTableExactlyOnce /\ ReferencedFirst)

DotFreeCyclicComplete ==
    (sortPc = "done" /\ ~Acyclic /\ DotFree) => EveryTableExactlyOnce

\* x stands before y in the list res
Before(res, x, y) == \E p, q \in 1..Len(res) : p < q /\ res[p] = x /\ res[q] = y

\* tables[i] references no table of the list other than itself
NoDependency(i) == \A j \in 1..Len(tables) : References(i, j) => j = i

NoDependencyTables == {tables[i] : i \in {k \in 1..Len(tables) : NoDependency(k)}}

SelfReferenceFree == \A i \in 1..Len(tables) : ~References(i, i)

\* C21: the sort is a function of the table list and the foreign-key map, and
\* the tables that depend on no other table of the list stand in the output in
\* the relative order they have in the input list.
C21_InputOrderKept ==
    sortPc = "done" =>
        Filter(sortResult, NoDependencyTables) = Filter(tables, NoDependencyTables)

\* With identifiers that contain no '.' and without self-references it holds.
DotFreeInputOrderKept ==
    (sortPc = "done" /\ DotFree /\ SelfReferenceFree) =>
        Filter(sortResult, NoDependencyTables) = Filter(tables, NoDependencyTables)

\* the step in which topological_sort_tables leaves the queue loop and returns
SortReturns == sortPc = "loop" /\ sortPc' = "done"

\* the only tables of the list tables[i] references are itself, and it does
SelfOnly(i) == References(i, i) /\ NoDependency(i)

\* indices reachable from i along references between different tables
RECURSIVE ProperReachableWithin(_, _)
ProperReachableWithin(i, n) ==
    IF n = 0 THEN {}
    ELSE LET direct == {j \in 1..Len(tables) : j # i /\ References(i, j)}
         IN  direct \cup UNION {ProperReachableWithin(j, n - 1) : j \in direct}

AcyclicButSelf == \A i \in 1..Len(tables) : i \notin ProperReachableWithin(i, Len(tables))

\* C26: a table whose only in-scope foreign key references itself is ordered by
\* the queue loop, no cycle is reported when there is no cycle among different
\* tables, and every other table that references it stands after it in the output.
C26_SelfReferenceDropped ==
    [][ SortReturns =>
          \A i \in 1..Len(tables) : SelfOnly(i) =>
              /\ TableKey(tables[i]) \in Range(sorted_tables)
              /\ AcyclicButSelf => Len(sorted_tables) = Len(tables)
              /\ \A j \in 1..Len(tables) :
                    (j # i /\ References(j, i)) => Before(sortResult', tables[i], tables[j])
      ]_vars

\* tables[i] is on a cycle of references, or references (transitively) a table that is
OnOrBehindCycle(i) ==
    \E j \in ReachableWithin(i, Len(tables)) \cup {i} : j \in ReachableWithin(j, Len(tables))

\* positions of the list the queue loop did not order
Unordered == {i \in 1..Len(tables) : TableKey(tables[i]) \notin Range(sorted_tables)}

\* C27: when the foreign keys contain a cycle, the output is the tables the
\* queue loop ordered followed by the tables it could not order, these in the
\* relative order of the input list, and a reference from a table that is
\* neither on nor behind a cycle has the referenced table first.
C27_CycleFallback ==
    [][ (SortReturns /\ ~Acyclic) =>
          LET n == Len(sorted_tables)
              res == sortResult'
          IN  /\ Len(res) = Len(tables)
              /\ {res[p] : p \in 1..n} = {tables[i] : i \in (1..Len(tables)) \ Unordered}
              /\ SubSeq(res, n + 1, Len(res)) = Filter(tables, {tables[i] : i \in Unordered})
              /\ \A i, j \in 1..Len(tables) :
                    (References(i, j) /\ ~OnOrBehindCycle(i)) => Before(res, tables[j], tables[i])
      ]_vars

\* With identifiers that contain no '.', C27 holds.
DotFreeCycleFallback ==
    [][ (SortReturns /\ ~Acyclic /\ DotFree) =>
          LET n == Len(sorted_tables)
              res == sortResult'
          IN  /\ Len(res) = Len(tables)
              /\ {res[p] : p \in 1..n} = {tables[i] : i \in (1..Len(tables)) \ Unordered}
              /\ SubSeq(res, n + 1, Len(res)) = Filter(tables, {tables[i] : i \in Unordered})
              /\ \A i, j \in 1..Len(tables) :
                    (References(i, j) /\ ~OnOrBehindCycle(i)) => Before(res, tables[j], tables[i])
      ]_vars

-----------------------------------------------------------------------------
(* Properties of migrate_data.migrate *)

KeyOf(i) == TableKey(srcTables[i])

AllTables == 1..Len(srcTables)

Ceil(n, b) == (n + b - 1) \div b

RECURSIVE Flatten(_)
Flatten(ss) == IF ss = <<>> THEN <<>> ELSE Head(ss) \o Flatten(Tail(ss))

IsPrefix(s, t) == Len(s) <= Len(t) /\ SubSeq(t, 1, Len(s)) = s

\* a step of the current invocation in which the copy of a table raises
CopyFails == run' = run /\ failed' # failed

\* C3: a table whose key is in the checkpoint log when the invocation starts is
\* neither selected from the source nor inserted into the target, and when the
\* invocation has finished every table whose key is not in the log was attempted.
C3_CheckpointedSkipped ==
    \A i \in AllTables :
        /\ KeyOf(i) \in Range(ckptAtStart) => i \notin attempted \cup inserted
        /\ (dataPc = "finished" /\ KeyOf(i) \notin Range(ckptAtStart)) => i \in attempted

\* C4: when copy_table has returned without error for a table of N rows with
\* batch size B, it has issued ceil(N/B) inserts, the inserted rows are the N
\* source rows in cursor order, and the target holds them after what it held before.
C4_BatchedCopy ==
    dataPc = "save" =>
        /\ Len(batches) = Ceil(srcRows[tableIdx], batch_size)
        /\ Flatten(batches) = CursorRows(srcRows[tableIdx])
        /\ target[tableIdx] = attemptStart[tableIdx] \o CursorRows(srcRows[tableIdx])

C4_Witness ==
    /\ dataPc = "save"
    /\ srcRows[tableIdx] = 3
    /\ batch_size = 2
    /\ Len(batches) = 2

\* C5: when the copy of a table raises (select, batch insert, resync or commit),
\* no uncommitted insert survives and the target holds what it held before the
\* attempt, the loop moves on to the next table, the target never holds
\* uncommitted rows at the head of the loop, and when the invocation has
\* finished every table that was not checkpointed at its start was attempted.
C5_FailureIsolated ==
    [][ /\ CopyFails =>
              /\ txn' = <<>>
              /\ target' = attemptStart'
              /\ dataPc' = "loop"
              /\ tableIdx' = tableIdx + 1
        /\ dataPc' = "loop" => txn' = <<>>
        /\ dataPc' = "finished" =>
              \A i \in AllTables : KeyOf(i) \notin done' => i \in attempted'
      ]_vars

C5_Witness ==
    /\ dataPc = "finished"
    /\ \E i \in failed \cap inserted : \E j \in attempted \ failed : j > i

\* C6: the failure of a table's copy appends nothing to the checkpoint log, and
\* the next invocation attempts every table whose copy failed in this one.
C6_FailedRetried ==
    [][ /\ CopyFails => checkpointFile' = checkpointFile
        /\ (dataPc' = "finished" /\ run' >= 2) => failedPrev' \subseteq attempted'
      ]_vars

\* C7: the checkpoint log only grows by appending, and every key in it is the
\* key of a table whose commit on the target has returned.
C7_CheckpointCommitted ==
    [][ /\ IsPrefix(checkpointFile, checkpointFile')
        /\ \A n \in 1..Len(checkpointFile') :
              \E i \in committed' : KeyOf(i) = checkpointFile'[n]
      ]_vars

C7_Witness ==
    /\ Len(checkpointFile) >= 2
    /\ failed # {}

\* the invocation is over: migrate returned, or an exception left it
RunOver == dataPc \in {"finished", "crashed"}

\* C14: in non-strict mode, whenever a batch is inserted on the target session,
\* enforcement is suspended on that session (session_replication_role is
\* replica), also for tables loaded after an earlier table failed and was
\* rolled back.
C14_SuspendedWhileLoading ==
    [][ (~strict /\ Len(txn') > Len(txn)) => role = "replica" ]_vars

\* C15: in non-strict mode, once the invocation is over, enforcement is restored
\* and a validation was issued for every foreign key the target held
\* unvalidated; in strict mode enforcement is never suspended and no
\* validation is issued.
C15_RestoredAndValidated ==
    /\ (RunOver /\ ~strict) => (role = "origin" /\ valAttempted = Range(valList))
    /\ (run > 0 /\ strict) => (role = "origin" /\ valAttempted = {} /\ dataPc # "validate")

\* C16: a foreign key that fails validation does not abort the run: the loop
\* goes on with the next unvalidated constraint, and the invocation ends by
\* returning from migrate with both connections closed.
C16_ValidationFailureReported ==
    [][ /\ valFailed' # valFailed => (dataPc' = "validate" /\ valIdx' = valIdx + 1)
        /\ (run' > 0 /\ dataPc' \in {"finished", "crashed"}) =>
              (dataPc' = "finished" /\ ~srcOpen' /\ ~dstOpen')
      ]_vars

\* C17: resynchronization starts only when every row of the table has been
\* inserted and none is committed, the commit is issued only after the
\* resynchronization returned, and when the resynchronization raises the
\* table's rows are rolled back, the target holds what it held before the
\* attempt, nothing is appended to the checkpoint log and the loop moves on.
C17_ResyncBeforeCommit ==
    [][ /\ (dataPc' = "resync" /\ dataPc # "resync") =>
              ( /\ RowsFor(txn', tableIdx') = CursorRows(srcRows[tableIdx'])
                /\ target'[tableIdx'] = attemptStart'[tableIdx'] )
        /\ (dataPc' = "commit" /\ dataPc # "commit") => dataPc = "resync"
        /\ target' # target => dataPc = "commit"
        /\ (dataPc = "resync" /\ failed' # failed) =>
              ( /\ txn' = <<>>
                /\ target' = attemptStart'
                /\ checkpointFile' = checkpointFile
                /\ dataPc' = "loop"
                /\ tableIdx' = tableIdx + 1 )
      ]_vars

C17_Witness ==
    /\ lastFailure = "resync"
    /\ dataPc = "finished"
    /\ \E i \in failed : srcRows[i] = MaxRows /\ target[i] = <<>> /\ KeyOf(i) \notin Range(checkpointFile)

\* C23: over the invocations of the transfer stage, no row of a source table is
\* committed to the target more than once, also when the checkpoint entry of a
\* committed table was not written.
C23_CommittedOnce ==
    \A i \in AllTables : \A r \in 1..srcRows[i] : Count(target[i], r) <= 1

-----------------------------------------------------------------------------
(* Properties of map_data_type and map_default_value *)

\* C8: the calls of map_data_type with the same (type, length, precision, scale)
\* that returned all returned the same string, and at most one of them consulted
\* the oracle.
C8_TypeMappedOnce ==
    \A a \in DOMAIN typeSeen :
        /\ Cardinality(typeSeen[a].results) = 1
        /\ typeSeen[a].oracle <= 1

C8_Witness ==
    \E a \in DOMAIN typeSeen : typeSeen[a].calls >= 2 /\ typeSeen[a].oracle = 1

\* C9: a call of map_default_value whose (lower-cased type, normalized default)
\* key is in the default cache returns DEFAULT followed by the cached value,
\* does not consult the oracle and leaves the cache as it is.
C9_CachedDefault ==
    [][ \A a \in DefaultArgs :
          ( /\ nCalls' = nCalls + 1
            /\ lastCall'.fn = "map_default_value"
            /\ lastCall'.args = a
            /\ a[1] # <<>>
            /\ DefaultKey(a) \in Keys(default_mappings) )
          => ( /\ ~lastCall'.raised
               /\ ~lastCall'.oracle
               /\ lastCall'.result = DEFAULT_ \o Get(default_mappings, DefaultKey(a))
               /\ default_mappings' = default_mappings )
      ]_vars

C9_Witness ==
    /\ lastCall.fn = "map_default_value"
    /\ lastCall.cachedBefore
    /\ lastCall.args = << <<"(", "(", "0", ")", ")">>, BIT >>
    /\ nCalls = MaxCalls

\* s is the one-character expression c wrapped in any number of parentheses
RECURSIVE Wrapped(_, _)
Wrapped(s, c) ==
    \/ s = <<c>>
    \/ /\ Len(s) >= 3
       /\ s[1] = "("
       /\ s[Len(s)] = ")"
       /\ Wrapped(SubSeq(s, 2, Len(s) - 1), c)

\* C10: map_default_value for type bit and default 0 or 1 in any number of
\* parentheses returns DEFAULT FALSE or DEFAULT TRUE without consulting the oracle.
C10_BitDefault ==
    (lastCall.fn = "map_default_value" /\ Lower(lastCall.args[2]) = bit) =>
        /\ Wrapped(lastCall.args[1], "0") =>
              (~lastCall.raised /\ ~lastCall.oracle /\ lastCall.result = DEFAULT_ \o FALSE_)
        /\ Wrapped(lastCall.args[1], "1") =>
              (~lastCall.raised /\ ~lastCall.oracle /\ lastCall.result = DEFAULT_ \o TRUE_)

-----------------------------------------------------------------------------
(* Properties of the foreign-key reconciliation *)

\* the six compared fields of a foreign key
Tuple6(fk) == SubSeq(fk, 1, 6)

Tuples(fks) == {Tuple6(fk) : fk \in fks}

\* C18: when the addition of a missing foreign key raises, nothing is raised out
\* of the reconciliation (the loop goes on with the next one), the target is
\* left as it was, and the foreign key is appended with the error message to
\* failed_fks; when the run is over every missing foreign key was attempted and
\* the list given to the report holds every addition that raised.
C18_AddFailureCollected ==
    [][ /\ (verRun' = verRun /\ addRaised' # addRaised) =>
              ( /\ verPc' = "add"
                /\ verIdx' = verIdx + 1
                /\ dst_fk' = dst_fk
                /\ \E x \in addRaised' \ addRaised : failed_fks' = Append(failed_fks, x) )
        /\ verPc' = "done" =>
              ( /\ addTried' = Range(missing_in_pg')
                /\ Range(failed_fks') = addRaised' )
      ]_vars

C20_ExactDifference ==
    [][ verRun' = verRun + 1 =>
          ( /\ Range(missing_in_pg') = {fk \in src_fk : Tuple6(fk) \notin Tuples(dst_fk)}
            /\ Range(extra_in_pg') = {fk \in dst_fk : Tuple6(fk) \notin Tuples(src_fk)} )
      ]_vars

\* C20 as amended: compare_foreign_keys returns as missing one source foreign
\* key for each six-field tuple that occurs in the source and not in the
\* target, and as extra one target foreign key for each tuple that occurs in
\* the target and not in the source; foreign keys that differ only in
\* constraint name are in neither list.
C20_OnePerTuple ==
    [][ verRun' = verRun + 1 =>
          ( /\ Range(missing_in_pg') \subseteq src_fk
            /\ Tuples(Range(missing_in_pg')) = Tuples(src_fk) \ Tuples(dst_fk)
            /\ Len(missing_in_pg') = Cardinality(Tuples(src_fk) \ Tuples(dst_fk))
            /\ Range(extra_in_pg') \subseteq dst_fk
            /\ Tuples(Range(extra_in_pg')) = Tuples(dst_fk) \ Tuples(src_fk)
            /\ Len(extra_in_pg') = Cardinality(Tuples(dst_fk) \ Tuples(src_fk))
            /\ \A f \in src_fk, g \in dst_fk :
                  Tuple6(f) = Tuple6(g) =>
                      f \notin Range(missing_in_pg') /\ g \notin Range(extra_in_pg') )
      ]_vars

C20_Witness ==
    /\ verPc = "add"
    /\ verIdx = 1
    /\ verRun = 1
    /\ missing_in_pg # <<>>
    /\ extra_in_pg # <<>>
    /\ \E f \in src_fk, g \in dst_fk : Tuple6(f) = Tuple6(g) /\ f # g
    /\ \E f, g \in src_fk : Tuple6(f) = Tuple6(g) /\ f # g /\ f \in Range(missing_in_pg)

\* C28: when a verification run is over and no addition was reported as failed,
\* every six-field tuple of a source foreign key occurs in the target, every
\* column pair of a multi-column foreign key included.
C28_AllAddedUnlessReported ==
    (verPc = "done" /\ failed_fks = <<>>) => Tuples(src_fk) \subseteq Tuples(dst_fk)

\* the target holds a constraint with the name of fk on the table of fk
NameTaken(dst, fk) == \E g \in dst : <<g[1], g[2], g[7]>> = <<fk[1], fk[2], fk[7]>>

\* the target is reconciled: every source foreign key is in the target by its
\* tuple, or its name is taken on its table
Reconciled == \A fk \in src_fk : Tuple6(fk) \in Tuples(dst_fk) \/ NameTaken(dst_fk, fk)

\* C29: ADD CONSTRAINT is issued (and returns or raises) only for a name that
\* is not taken on the table; for a taken name the call leaves the target and
\* the failure list as they are and the loop goes on; on a reconciled target a
\* run adds nothing and its failure list stays empty.
C29_ExistenceChecked ==
    [][ /\ (dst_fk' # dst_fk \/ (verRun' = verRun /\ addRaised' # addRaised)) =>
              ( /\ verPc = "add"
                /\ ~NameTaken(dst_fk, missing_in_pg[verIdx]) )
        /\ (verPc = "add" /\ verIdx <= Len(missing_in_pg)
              /\ NameTaken(dst_fk, missing_in_pg[verIdx])) =>
              ( /\ dst_fk' = dst_fk
                /\ failed_fks' = failed_fks
                /\ verPc' = "add"
                /\ verIdx' = verIdx + 1 )
        /\ Reconciled =>
              ( /\ dst_fk' = dst_fk
                /\ failed_fks' = (IF verRun' = verRun THEN failed_fks ELSE <<>>) )
      ]_vars

C29_Witness ==
    /\ verPc = "done"
    /\ verRun = 2
    /\ Reconciled
    /\ missing_in_pg # <<>>
    /\ failed_fks = <<>>
    /\ dst_fk # dstAtStart

-----------------------------------------------------------------------------
(* Properties of the DDL document *)

\* the tables of sortResult the catalog has columns for, in that order
RECURSIVE FoundTables(_)
FoundTables(ts) ==
    IF ts = <<>> THEN <<>>
    ELSE (IF GetSqlserverSchema(ts[1][1], ts[1][2]) # 0 THEN <<ts[1]>> ELSE <<>>)
             \o FoundTables(Tail(ts))

\* positions of the document holding a statement of that kind for that table
CreatePositions(t) ==
    {p \in 1..Len(document) : document[p].kind = "create" /\ document[p].table = t}

FkPositionsReferencing(t) ==
    {p \in 1..Len(document) : document[p].kind = "fk" /\ document[p].ref = t}

\* the group of a statement: extensions, CREATE TABLE, ALTER TABLE, CREATE INDEX
GroupOf(stmt) ==
    IF stmt.kind = "create" THEN 2
    ELSE IF stmt.kind = "fk" THEN 3
    ELSE IF stmt.kind = "index" THEN 4
    ELSE 1

\* C11: when the oracle raises while a column's type or default is resolved, the
\* schema stage goes on with the columns (no cache entry is written by the
\* failed call), it never ends by the exception, and when it ends every table
\* of the sorted list that the catalog knows has its CREATE TABLE in a written
\* document.
C11_OracleFailureTolerated ==
    [][ /\ (oracleFailed' /\ ~oracleFailed) =>
              ( /\ ddlPc' \in {"type", "default"}
                /\ type_mappings' = type_mappings
                /\ default_mappings' = default_mappings )
        /\ ddlPc' # "crashed"
        /\ (ddlPc' = "done" /\ written' = "ok") =>
              \A k \in 1..Len(sortResult') :
                  GetSqlserverSchema(sortResult'[k][1], sortResult'[k][2]) # 0 =>
                      \E p \in 1..Len(document') :
                          document'[p].kind = "create" /\ document'[p].table = sortResult'[k]
      ]_vars

\* C12: in the document no statement of a later group precedes a statement of
\* an earlier group (extensions, CREATE TABLE, ALTER TABLE ... FOREIGN KEY,
\* CREATE INDEX), and a completely written document starts with the extension
\* statements and holds every collected statement.
C12_DocumentGrouped ==
    /\ \A p, q \in 1..Len(document) :
          p < q => GroupOf(document[p]) <= GroupOf(document[q])
    /\ written = "ok" =>
          /\ SubSeq(document, 1, Len(extension_comments)) = extension_comments
          /\ Len(document) = Len(extension_comments) + Len(create_table_statements)
                                 + Len(fk_statements) + Len(index_statements)
          /\ \A k \in 1..Len(create_table_statements) :
                document[Len(extension_comments) + k] = create_table_statements[k]

C12_Witness ==
    /\ written = "ok"
    /\ Len(create_table_statements) = 2
    /\ Len(fk_statements) >= 1
    /\ Len(index_statements) >= 1

\* C13: in a completely written document the CREATE TABLE statements are in the
\* order the sort returned, and for an acyclic schema the CREATE TABLE of every
\* referenced in-scope table is in the document before the CREATE TABLE of each
\* table that references it and before every ALTER statement that references it.
C13_ReferencedCreatedFirst ==
    written = "ok" =>
        /\ [k \in 1..Len(create_table_statements) |-> create_table_statements[k].table]
              = FoundTables(sortResult)
        /\ Acyclic =>
              \A i, j \in 1..Len(tables) :
                  References(i, j) =>
                      /\ CreatePositions(tables[j]) # {}
                      /\ \A p \in CreatePositions(tables[j]) :
                            /\ \A q \in CreatePositions(tables[i]) : p < q
                            /\ \A q \in FkPositionsReferencing(tables[j]) : p < q
                      /\ CreatePositions(tables[i]) # {}

\* every table of the catalog has its CREATE TABLE collected: none was skipped
NoTableSkipped ==
    \A i \in 1..Len(tables) :
        \E k \in 1..Len(create_table_statements) : create_table_statements[k].table = tables[i]

\* with identifiers that contain no '.' and no table skipped, the statement of C13 holds
DotFreeReferencedCreatedFirst == (DotFree /\ NoTableSkipped) => C13_ReferencedCreatedFirst

-----------------------------------------------------------------------------
(* Properties of migrate_data_1.main *)

\* the data files of the directory: its .sql files other than _convert_types.sql
DataFileSet == {p \in impDir : p[2] = "sql" /\ p # convert_file}

AppliedFiles == [i \in 1..Len(applied) |-> applied[i].file]

\* C22: the conversion artifact is applied at most once, nothing is applied
\* after it, every data file has been applied before it, also when data files
\* failed, and when main has finished the artifact, if it exists, was applied
\* exactly once and every data file exactly once.
C22_ConvertLast ==
    /\ Count(AppliedFiles, convert_file) <= 1
    /\ \A i \in 1..Len(applied) :
          AppliedFiles[i] = convert_file =>
              /\ i = Len(applied)
              /\ DataFileSet \subseteq {AppliedFiles[j] : j \in 1..(i - 1)}
    /\ impPc = "done" =>
          /\ convert_file \in impDir => Count(AppliedFiles, convert_file) = 1
          /\ \A f \in DataFileSet : Count(AppliedFiles, f) = 1

C22_Witness ==
    /\ impPc = "done"
    /\ Len(applied) = 4
    /\ applied[4].file = convert_file
    /\ impFailed \cap DataFileSet # {}

\* C24: every file is applied while enforcement is suspended on the session
\* (session_replication_role is replica), also after an earlier file failed and
\* was rolled back, and the role goes back to the default only at the end of main.
C24_SuspendedWhileApplying ==
    [][ /\ \A i \in 1..Len(applied') : applied'[i].role = "replica"
        /\ (impRole = "replica" /\ impRole' = "origin") => impPc' = "done"
      ]_vars

\* a step in which run_sql_file takes its except branch
FileFails == impFailed' # impFailed

\* C25: each file starts in a transaction that holds no statement of another
\* file; when a statement of a file fails, nothing stays uncommitted, the target
\* holds what it held, no statement of a failed file is ever in the target,
\* committed statements stay, main goes on with the next file, and when main
\* has finished every data file and the conversion artifact were applied.
C25_FileRolledBack ==
    [][ /\ impPc' = "execute" => impTxn' = <<>>
        /\ FileFails =>
              /\ impTxn' = <<>>
              /\ impTarget' = impTarget
              /\ impPc' = (IF impCaller = "loop" THEN "loop" ELSE "restore")
              /\ impCaller = "loop" => impIdx' = impIdx + 1
        /\ \A row \in impTarget' : row[1] \notin impFailed'
        /\ impTarget \subseteq impTarget'
        /\ impPc' = "done" =>
              DataFileSet \cup ({convert_file} \cap impDir) \subseteq Range(AppliedFiles')
      ]_vars

C25_Witness ==
    /\ impPc = "done"
    /\ Len(sql_files) = 3
    /\ sql_files[2] \in impFailed
    /\ fileStmts[sql_files[2]] = 2
    /\ \E n \in 1..2 : <<sql_files[1], n>> \in impTarget
    /\ \E n \in 1..2 : <<sql_files[3], n>> \in impTarget
    /\ \E n \in 1..2 : <<convert_file, n>> \in impTarget

-----------------------------------------------------------------------------
(* Properties of _convert_types.sql *)

\* the casted columns, each <<schema, table, col>> as the source names them
CastedColumns ==
    UNION {{<<t[1], t[2], c>> : c \in Range(CastColumns)} : t \in Range(CastTables)}

IsCastedAs(C, dtype) ==
    \E i \in 1..Len(casted_columns_map) :
        /\ casted_columns_map[i][1] = TableKey(<<C[1], C[2]>>)
        /\ <<C[3], dtype>> \in Range(casted_columns_map[i][2])

IsCasted(C) == \E dtype \in CastTypes : IsCastedAs(C, dtype)

\* the foreign keys of the target that reference column C
ReferencingFks(C) == {r \in Range(pgFks) : r.tgt = C}

IsDrop(st, fk) ==
    st.op = "DROP" /\ st.table = <<fk.schema, fk.table>> /\ st.constraint = fk.constraint

IsAdd(st, fk) ==
    st.op = "ADD" /\ st.table = <<fk.schema, fk.table>> /\ st.constraint = fk.constraint

IsAlter(st, schema, table, col) ==
    st.op = "ALTER" /\ st.table = <<schema, table>> /\ st.column = col

\* generate_postprocess_sql is over: it returned, or an exception left it
PostOver == postPc \in {"done", "crashed"}

\* the statements for column C stand in the order drop, alter, add: up to some
\* position every referencing constraint is dropped, between it and a later
\* position C and every referencing column are altered, from there on every
\* referencing constraint is added
DropAlterAdd(C) ==
    \E lo, hi \in 1..Len(artifact) :
        /\ lo < hi
        /\ \E p \in (lo + 1)..(hi - 1) : IsAlter(artifact[p], C[1], C[2], C[3])
        /\ \A fk \in ReferencingFks(C) :
              /\ \E p \in 1..lo : IsDrop(artifact[p], fk)
              /\ \E p \in (lo + 1)..(hi - 1) :
                    IsAlter(artifact[p], fk.schema, fk.table, fk.column)
              /\ \E p \in hi..Len(artifact) : IsAdd(artifact[p], fk)

\* every DROP CONSTRAINT is followed by an ADD CONSTRAINT of that name on that table
DroppedReAdded ==
    \A p \in 1..Len(artifact) :
        artifact[p].op = "DROP" =>
            \E q \in (p + 1)..Len(artifact) :
                /\ artifact[q].op = "ADD"
                /\ artifact[q].table = artifact[p].table
                /\ artifact[q].constraint = artifact[p].constraint

\* C30: in the artifact, for every casted column that foreign keys reference,
\* the DROP CONSTRAINT of all those foreign keys come first, then the ALTER
\* COLUMN TYPE of the column and of every referencing column, then the ADD
\* CONSTRAINT statements, and every dropped constraint is re-added later.
C30_DropAlterAdd ==
    PostOver =>
        /\ \A C \in CastedColumns :
              (IsCasted(C) /\ ReferencingFks(C) # {}) => DropAlterAdd(C)
        /\ DroppedReAdded

\* It holds for the columns that are not sql_variant when the function returned.
ConvertedDropAlterAdd ==
    postPc = "done" =>
        /\ \A C \in CastedColumns :
              (IsCasted(C) /\ ReferencingFks(C) # {} /\ ~IsCastedAs(C, "sql_variant"))
              => DropAlterAdd(C)
        /\ DroppedReAdded

\* the foreign keys in force after the first n statements of the artifact have run
RECURSIVE InForce(_)
InForce(n) ==
    IF n = 0 THEN {<<r.schema, r.table, r.constraint>> : r \in Range(pgFks)}
    ELSE LET st == artifact[n]
             id == <<st.table[1], st.table[2], st.constraint>>
         IN  IF st.op = "DROP" THEN InForce(n - 1) \ {id}
             ELSE IF st.op = "ADD" THEN InForce(n - 1) \cup {id}
             ELSE InForce(n - 1)

\* no column is altered while a foreign key that touches it (as referencing or as
\* referenced column) is in force
NoAlterUnderConstraint ==
    \A p \in 1..Len(artifact) :
        artifact[p].op = "ALTER" =>
            \A r \in Range(pgFks) :
                (\/ <<r.schema, r.table, r.column>> = <<artifact[p].table[1], artifact[p].table[2], artifact[p].column>>
                 \/ r.tgt = <<artifact[p].table[1], artifact[p].table[2], artifact[p].column>>)
                => <<r.schema, r.table, r.constraint>> \notin InForce(p - 1)

\* the foreign-key constraints of the target: per (schema, table, name) the
\* ordered pairs <<local column, referenced column>>
ConstraintIds == {<<r.schema, r.table, r.constraint>> : r \in Range(pgFks)}

ColumnPairs(id) ==
    LET rows == {r \in Range(pgFks) : <<r.schema, r.table, r.constraint>> = id}
        cs == Filter(CastColumns, {r.column : r \in rows})
    IN  [j \in 1..Len(cs) |-> <<cs[j], (CHOOSE r \in rows : r.column = cs[j]).tgt>>]

TargetConstraints == [id \in ConstraintIds |-> ColumnPairs(id)]

\* the constraints after the first n statements of the artifact have been
\* applied; ok is FALSE once a DROP names a constraint that does not exist or
\* an ADD one that does
RECURSIVE AfterStatements(_)
AfterStatements(n) ==
    IF n = 0 THEN [cat |-> TargetConstraints, ok |-> TRUE]
    ELSE LET prev == AfterStatements(n - 1)
             st == artifact[n]
             id == <<st.table[1], st.table[2], st.constraint>>
         IN  IF st.op = "DROP"
             THEN [cat |-> [i \in (DOMAIN prev.cat) \ {id} |-> prev.cat[i]],
                   ok |-> prev.ok /\ id \in DOMAIN prev.cat]
             ELSE IF st.op = "ADD"
             THEN [cat |-> [i \in (DOMAIN prev.cat) \cup {id} |->
                               IF i = id THEN <<(<<st.column, st.ref>>)>> ELSE prev.cat[i]],
                   ok |-> prev.ok /\ id \notin DOMAIN prev.cat]
             ELSE prev

StatementsOf(op, id) ==
    {p \in 1..Len(artifact) :
        artifact[p].op = op /\ <<artifact[p].table[1], artifact[p].table[2], artifact[p].constraint>> = id}

\* C31: applying the artifact leaves the foreign-key constraints of the target
\* as they were: every statement applies, every constraint is added as often as
\* it is dropped, and at the end each constraint has its name, its ordered
\* local columns and its ordered referenced columns.
C31_ConstraintsUnchanged ==
    PostOver =>
        /\ AfterStatements(Len(artifact)) = [cat |-> TargetConstraints, ok |-> TRUE]
        /\ \A id \in ConstraintIds :
              Cardinality(StatementsOf("ADD", id)) = Cardinality(StatementsOf("DROP", id))

\* It holds when every constraint of the target has one column.
SingleColumnConstraintsUnchanged ==
    (PostOver /\ \A id \in ConstraintIds : Len(ColumnPairs(id)) = 1) =>
        AfterStatements(Len(artifact)) = [cat |-> TargetConstraints, ok |-> TRUE]


-----------------------------------------------------------------------------
(* Properties of the foreign-key statements of the DDL document *)

\* positions of the document before p that hold the CREATE TABLE of table t
CreatedBefore(t, p) ==
    \E q \in 1..(p - 1) : document[q].kind = "create" /\ document[q].table = t

\* C32: every ALTER TABLE ... ADD CONSTRAINT ... FOREIGN KEY statement of the
\* document names a table and a referenced table whose CREATE TABLE statements
\* are both earlier in the same document, also when a table was skipped.
C32_FkTablesCreated ==
    \A p \in 1..Len(document) :
        document[p].kind = "fk" =>
            /\ CreatedBefore(document[p].table, p)
            /\ CreatedBefore(document[p].ref, p)

\* the foreign keys of the catalog reference only tables of the catalog
ReferencesInScope ==
    \A i \in 1..Len(tables) : \A k \in 1..Len(srcFks[i]) :
        \E j \in 1..Len(tables) : tables[j] = srcFks[i][k]

\* when no table was skipped and every referenced table is in the catalog, the
\* statement of C32 holds
InScopeFkTablesCreated == (NoTableSkipped /\ ReferencesInScope) => C32_FkTablesCreated


-----------------------------------------------------------------------------
(* Properties of the cache files across calls *)

\* the value a default cache file holds for a key (the file has one entry per key)
DefaultEntry(d, k) == {d[i][2] : i \in {j \in 1..Len(d) : d[j][1] = k}}

DefaultKeys(d) == {d[i][1] : i \in 1..Len(d)}

\* C33: across any sequence of map_data_type and map_default_value calls an
\* entry of the type cache or of the default cache is never removed and never
\* changes its value, and each call adds at most one new entry.
C33_CachesAppendOnly ==
    [][ /\ \A t \in DOMAIN type_mappings :
              t \in DOMAIN type_mappings' /\ type_mappings'[t] = type_mappings[t]
        /\ \A k \in DefaultKeys(default_mappings) :
              /\ k \in DefaultKeys(default_mappings')
              /\ DefaultEntry(default_mappings', k) = DefaultEntry(default_mappings, k)
        /\ Cardinality(DOMAIN type_mappings') + Cardinality(DefaultKeys(default_mappings'))
              <= Cardinality(DOMAIN type_mappings) + Cardinality(DefaultKeys(default_mappings)) + 1
        /\ Len(default_mappings') = Cardinality(DefaultKeys(default_mappings'))
      ]_vars

\* both caches were loaded with entries and each has been extended by a call
C33_Witness ==
    /\ nCalls >= 2
    /\ Cardinality(DOMAIN type_mappings) >= 3
    /\ Len(default_mappings) >= 3
    /\ lastCall.oracle /\ ~lastCall.raised


-----------------------------------------------------------------------------
(* Properties of the precision and scale suffix *)

\* the last call was map_data_type for decimal or numeric and it returned
ExactNumericCall ==
    /\ lastCall.fn = "map_data_type"
    /\ ~lastCall.raised
    /\ Lower(lastCall.args[1]) \in {decimal, numeric}

\* the mapped base type followed by "(precision, scale)"
WithPrecisionScale(a) ==
    type_mappings[Lower(a[1])] \o <<"(">> \o IntStr(a[3][1]) \o <<",", " ">>
        \o IntStr(a[4][1]) \o <<")">>

\* C38: map_data_type for decimal or numeric appends (precision, scale) to the
\* mapped base type whenever precision and scale are both present (non-null),
\* including a scale of 0.
C38_PrecisionScaleAppended ==
    (ExactNumericCall /\ lastCall.args[3] # None /\ lastCall.args[4] # None) =>
        lastCall.result = WithPrecisionScale(lastCall.args)

\* when precision and scale are both present and neither is 0, the suffix is appended
NonZeroPrecisionScaleAppended ==
    ( /\ ExactNumericCall
      /\ lastCall.args[3] # None /\ lastCall.args[4] # None
      /\ lastCall.args[3][1] # 0 /\ lastCall.args[4][1] # 0 ) =>
        lastCall.result = WithPrecisionScale(lastCall.args)


-----------------------------------------------------------------------------
(* Properties of the normalization of default expressions *)

\* number of '(' minus number of ')' among the first n characters of s
RECURSIVE Depth(_, _)
Depth(s, n) ==
    IF n = 0 THEN 0
    ELSE Depth(s, n - 1) + (IF s[n] = "(" THEN 1 ELSE IF s[n] = ")" THEN -1 ELSE 0)

\* the first character of s is a '(' whose matching ')' is the last character
EnclosedWhole(s) ==
    /\ Len(s) >= 2
    /\ s[1] = "(" /\ s[Len(s)] = ")"
    /\ \A n \in 1..(Len(s) - 1) : Depth(s, n) > 0

\* s without the layers of parentheses that enclose the whole expression
RECURSIVE WithoutEnclosing(_)
WithoutEnclosing(s) ==
    IF EnclosedWhole(s) THEN WithoutEnclosing(Strip(SubSeq(s, 2, Len(s) - 1))) ELSE s

\* the last call was map_default_value with a default, and it wrote a cache entry
DefaultResolved ==
    /\ lastCall.fn = "map_default_value"
    /\ ~lastCall.raised
    /\ lastCall.oracle

\* C39: the normalization removes only layers of parentheses that enclose the
\* whole expression: the cache key written by a call is the lower-cased type,
\* "::" and the expression without its enclosing layers, so every key of the
\* default cache has balanced parentheses.
C39_OnlyEnclosingStripped ==
    /\ DefaultResolved =>
          (Lower(lastCall.args[2]) \o ColonColon \o WithoutEnclosing(Strip(lastCall.args[1])))
              \in DefaultKeys(default_mappings)
    /\ \A k \in DefaultKeys(default_mappings) : Balanced(k)

\* for an expression whose parentheses all enclose the whole of it, the key is
\* the expression without its enclosing layers
NestedOnlyEnclosingStripped ==
    (DefaultResolved /\ ~Contains(lastCall.args[1], <<")", "(">>)) =>
        (Lower(lastCall.args[2]) \o ColonColon \o WithoutEnclosing(Strip(lastCall.args[1])))
            \in DefaultKeys(default_mappings)


-----------------------------------------------------------------------------
(* SpecCount: verify_migration.main, lines 296-306: compare_data_counts on the
   two connections, then the catalog query of the foreign-key comparison *)

\* tables the two databases may have in common, in the order sorted() gives them
CountOrder == << <<"s", "a">>, <<"s", "b">>, <<"s", "c">> >>

\* what SELECT COUNT(*) on a table gives: a count, or None when the query fails
CountOutcomes == {Some(n) : n \in 0..MaxCount} \cup {None}

\* sorted(tables), line 131
SortedTables(ts) == Filter(CountOrder, ts)

\* fetch_row_count(dst_conn, ..., is_pg=True), lines 119-126: in an aborted
\* transaction every statement raises, and a statement that raises aborts the
\* transaction; the handler returns None without a rollback
FetchDstCount(txn_state, outcome) ==
    IF txn_state = "aborted" THEN [count |-> None, txn |-> "aborted"]
    ELSE IF outcome = None THEN [count |-> None, txn |-> "aborted"]
    ELSE [count |-> outcome, txn |-> "open"]

\* compare_data_counts, lines 134-135
AppendMismatch(mismatches, t, src_count, dst_count) ==
    IF src_count # dst_count
    THEN Append(mismatches, <<t[1], t[2], src_count, dst_count>>)
    ELSE mismatches

CountInit ==
    /\ SortIdle
    /\ DataIdle
    /\ MapIdle
    /\ VerIdle
    /\ DdlIdle
    /\ ImpIdle
    /\ PostIdle
    /\ PipeIdle
    /\ common_tables \in {ts \in SUBSET Range(CountOrder) : Cardinality(ts) <= MaxCountTables}
    /\ srcCount \in [common_tables -> CountOutcomes]
    /\ dstCount \in [common_tables -> CountOutcomes]
    /\ dstTxn = "open"
    /\ data_mismatches = <<>>
    /\ counted = <<>>
    /\ cntIdx = 1
    /\ cntPc = "counts"

\* compare_data_counts, lines 131-135: one iteration of the loop
CountTable ==
    /\ cntPc = "counts"
    /\ cntIdx <= Len(SortedTables(common_tables))
    /\ LET t == SortedTables(common_tables)[cntIdx]
           src_count == srcCount[t]
           dst == FetchDstCount(dstTxn, dstCount[t])
       IN  /\ dstTxn' = dst.txn
           /\ data_mismatches' = AppendMismatch(data_mismatches, t, src_count, dst.count)
           /\ counted' = Append(counted, [table |-> t, src |-> src_count, dst |-> dst.count])
    /\ cntIdx' = cntIdx + 1
    /\ UNCHANGED <<notCount, common_tables, srcCount, dstCount, cntPc>>

\* compare_data_counts, line 136, and main, lines 297-301
CountReturn ==
    /\ cntPc = "counts"
    /\ cntIdx > Len(SortedTables(common_tables))
    /\ cntPc' = "fks"
    /\ UNCHANGED <<notCount, common_tables, srcCount, dstCount, dstTxn, data_mismatches,
                   counted, cntIdx>>

\* main, line 306: fetch_foreign_keys_pg(dst_conn) executes its query
FetchFksOk ==
    /\ cntPc = "fks"
    /\ dstTxn = "open"
    /\ cntPc' = "reconcile"
    /\ UNCHANGED <<notCount, common_tables, srcCount, dstCount, dstTxn, data_mismatches,
                   counted, cntIdx>>

\* main, line 306: the query raises in the aborted transaction; nothing catches it
FetchFksRaises ==
    /\ cntPc = "fks"
    /\ dstTxn = "aborted"
    /\ cntPc' = "crashed"
    /\ UNCHANGED <<notCount, common_tables, srcCount, dstCount, dstTxn, data_mismatches,
                   counted, cntIdx>>

CountNext ==
    \/ CountTable
    \/ CountReturn
    \/ FetchFksOk
    \/ FetchFksRaises

SpecCount == CountInit /\ [][CountNext]_vars

-----------------------------------------------------------------------------
(* Properties of compare_data_counts *)

\* compare_data_counts has returned
CountsCompared == cntPc \in {"fks", "reconcile", "crashed"}

\* what fetch_row_count returned for table t
CountedFor(t) == {c \in Range(counted) : c.table = t}

\* the entries of the returned list for table t
ReportedFor(t) == {m \in Range(data_mismatches) : <<m[1], m[2]>> = t}

\* C34: compare_data_counts reports exactly those common tables whose source
\* and target row counts differ, with both counts; a table whose counts are
\* equal is never reported, and a table whose count could not be read on one
\* or both sides is reported.
C34_MismatchesReported ==
    CountsCompared =>
        /\ \A m \in Range(data_mismatches) : <<m[1], m[2]>> \in common_tables
        /\ \A t \in common_tables : \A c \in CountedFor(t) :
              /\ (c.src # None /\ c.dst # None /\ c.src = c.dst) => ReportedFor(t) = {}
              /\ (c.src # None /\ c.dst # None /\ c.src # c.dst) =>
                    ReportedFor(t) = {<<t[1], t[2], c.src, c.dst>>}
              /\ (c.src = None \/ c.dst = None) => ReportedFor(t) # {}

\* a table is reported exactly when the two values fetch_row_count returned
\* differ (None on both sides does not differ)
ReturnedValuesCompared ==
    CountsCompared =>
        \A t \in common_tables : \A c \in CountedFor(t) :
            /\ (c.src = c.dst) => ReportedFor(t) = {}
            /\ (c.src # c.dst) => ReportedFor(t) = {<<t[1], t[2], c.src, c.dst>>}

\* C35: a count query that fails on the target for one table does not alter
\* what is reported for any other table, nor the outcome of the foreign-key
\* reconciliation that follows on the same connection: every other table's
\* target count is read as the target holds it, and the catalog query of the
\* reconciliation does not fail.
C35_FailedQueryIsolated ==
    /\ \A c \in Range(counted) :
          dstCount[c.table] # None => c.dst = dstCount[c.table]
    /\ cntPc # "crashed"

\* when no count query fails on the target, every count is read as the target holds it
NoTargetFailureIsolated ==
    (\A t \in common_tables : dstCount[t] # None) => C35_FailedQueryIsolated


-----------------------------------------------------------------------------
(* SpecPipe: data_migration.main, lines 38-94: five run_script calls *)

\* the scripts main runs, in the order of its run_script calls
Scripts ==
    << "migrate_schema.py", "postgres_schema.py", "migrate_script.py",
       "migrate_data_1.py", "verify_migration.py" >>

\* how the main of each script may end: "ok", "raised" (an exception nothing
\* catches), or the failure it logs before `return`
StageOutcomes ==
    << \* migrate_schema.main: lines 354-357 (get_all_tables gave no tables or
       \* caught pyodbc.Error), lines 402-403 (IOError writing the document)
       {"ok", "no_tables", "write_ioerror", "raised"},
       \* postgres_schema.main: lines 164-194
       {"ok", "create_database", "read_sql_file", "enable_extensions", "create_schemas",
        "execute_sql", "raised"},
       \* migrate_script.main: lines 237-241 (source connection failed)
       {"ok", "connect_failed", "raised"},
       \* migrate_data_1.main: lines 48-50 (no directory), lines 52-62 (connection failed)
       {"ok", "no_directory", "connect_failed", "raised"},
       \* verify_migration.main has no handler of its own
       {"ok", "raised"} >>

\* the exit code of the interpreter: 1 after an uncaught exception, 0 when main returns
ExitCode(outcome) == IF outcome = "raised" THEN 1 ELSE 0

\* run_script, line 18
ReturncodeFailsMutant(returncode) == FALSE
ReturncodeFails(returncode) == returncode # 0

PipeInit ==
    /\ SortIdle
    /\ DataIdle
    /\ MapIdle
    /\ VerIdle
    /\ DdlIdle
    /\ ImpIdle
    /\ PostIdle
    /\ CountIdle
    /\ pipeStage = 1
    /\ pipePc = "call"
    /\ stageLog = <<>>
    /\ pipeExit = None
    /\ successLogged = FALSE

\* run_script, lines 15-17: subprocess.run starts the script of the next call
RunScript ==
    /\ pipePc = "call"
    /\ pipeStage <= Len(Scripts)
    /\ stageLog' = Append(stageLog, [script |-> Scripts[pipeStage], outcome |-> "running",
                                     returncode |-> None])
    /\ pipePc' = "running"
    /\ UNCHANGED <<notPipe, pipeStage, pipeExit, successLogged>>

\* run_script, lines 17-20: the script has ended and subprocess.run returns; a
\* non-zero return code is logged and main exits with it
ScriptEnds ==
    /\ pipePc = "running"
    /\ \E outcome \in StageOutcomes[pipeStage] :
          LET returncode == ExitCode(outcome)
          IN  /\ stageLog' = [stageLog EXCEPT ![Len(stageLog)] =
                                 [script |-> Scripts[pipeStage], outcome |-> outcome,
                                  returncode |-> Some(returncode)]]
              /\ IF ReturncodeFails(returncode)
                 THEN /\ pipePc' = "exited"
                      /\ pipeExit' = Some(returncode)
                      /\ pipeStage' = pipeStage
                 ELSE /\ pipePc' = "call"
                      /\ pipeExit' = pipeExit
                      /\ pipeStage' = pipeStage + 1
    /\ UNCHANGED <<notPipe, successLogged>>

\* main, line 94: all five calls returned; success is logged and main ends
PipeSuccess ==
    /\ pipePc = "call"
    /\ pipeStage > Len(Scripts)
    /\ successLogged' = TRUE
    /\ pipeExit' = Some(0)
    /\ pipePc' = "done"
    /\ UNCHANGED <<notPipe, pipeStage, stageLog>>

PipeNext ==
    \/ RunScript
    \/ ScriptEnds
    \/ PipeSuccess

SpecPipe == PipeInit /\ [][PipeNext]_vars

-----------------------------------------------------------------------------
(* Properties of data_migration.main *)

\* C36: main runs the five stages strictly in the order schema extraction,
\* schema apply, data export, data import, verification, each to completion
\* before the next starts; on the first stage that exits with a non-zero code
\* it exits with that code without starting any later stage, and it logs overall
\* success only after all five stages exited with 0.
C36_StagesInOrder ==
    /\ Len(stageLog) <= 5
    /\ \A i \in 1..Len(stageLog) :
          /\ stageLog[i].script = Scripts[i]
          /\ i < Len(stageLog) => stageLog[i].returncode = Some(0)
          /\ stageLog[i].returncode \notin {None, Some(0)} =>
                /\ pipeExit = stageLog[i].returncode
                /\ ~successLogged
    /\ (pipeExit # None /\ pipeExit # Some(0)) =>
          /\ stageLog # <<>>
          /\ stageLog[Len(stageLog)].returncode = pipeExit
    /\ successLogged =>
          /\ Len(stageLog) = 5
          /\ \A i \in 1..5 : stageLog[i].returncode = Some(0)

\* the data export exited with 1 and main exited with 1
C36_Witness ==
    /\ Len(stageLog) = 3
    /\ stageLog[3].returncode = Some(1)
    /\ pipeExit = Some(1)

\* the failures of the schema stage and of the schema-apply stage: the source
\* catalog cannot be read, the DDL file cannot be written, the database cannot
\* be created, extensions cannot be enabled, schemas cannot be created, the DDL
\* cannot be executed
InternalFailures ==
    {"no_tables", "write_ioerror", "create_database", "enable_extensions",
     "create_schemas", "execute_sql"}

\* C37: if the schema stage or the schema-apply stage fails internally, the
\* pipeline stops there: no later stage is run and overall success is not logged.
C37_InternalFailureStops ==
    \A i \in 1..Len(stageLog) :
        stageLog[i].outcome \in InternalFailures =>
            /\ i = Len(stageLog)
            /\ ~successLogged

\* a stage that ends by an uncaught exception stops the pipeline
UncaughtFailureStops ==
    \A i \in 1..Len(stageLog) :
        stageLog[i].outcome = "raised" =>
            /\ i = Len(stageLog)
            /\ ~successLogged
            /\ pipePc = "exited"

====
